---- MODULE Spec2Model ----
(***************************************************************************)
(* DocuCon: document lifecycle (create / update / delete with chunking and *)
(* mock embeddings) and the character chunker, modelled from the sources   *)
(* app/api/documents.py, app/services/*.py and app/db/models.py.           *)
(***************************************************************************)
EXTENDS Integers, Sequences, FiniteSets, TLC

(***************************************************************************)
(* Bounds of the model                                                     *)
(***************************************************************************)
\* longest text of the small chunker input family
MaxLen == 6
\* largest chunk_size of the small chunker input family
MaxSize == 4
\* largest overlap of the small chunker input family
MaxOverlap == 4
\* most document ids the documents id sequence hands out in one run
MaxDocs == 1
\* most uuid4() values drawn in one run (embedding ids and mock_system_ids)
MaxUuids == 3
\* most calls that raise in one run
MaxFaults == 1

(***************************************************************************)
(* Program constants                                                       *)
(***************************************************************************)
\* chunk_text(..., chunk_size: int = 500, ...)
DefaultChunkSize == 500
\* chunk_text(..., overlap: int = 50)
DefaultOverlap == 50

Min(a, b) == IF a < b THEN a ELSE b

\* ceil(a / b) for an integer a and b > 0
CeilDiv(a, b) == IF a % b = 0 THEN a \div b ELSE (a \div b) + 1

(***************************************************************************)
(* DocumentProcessor.chunk_text                                            *)
(***************************************************************************)
\* A text of n characters; the character at (1-based) position i is
\* ((i + seed) % 3), so that texts with different seeds differ.
MkText(n, seed) == [i \in 1..n |-> (i + seed) % 3]

\* Python's text[start:end] for 0 <= start (end may exceed len(text)).
Slice(text, start, end) == SubSeq(text, start + 1, Min(end, Len(text)))

\* One iteration of the while loop: the mutated advance forgets the overlap.
ChunkIterNoOverlap(st) ==
    LET end == st.start + st.chunk_size
        chunk == Slice(st.text, st.start, end)
        ns == st.start + st.chunk_size
    IN [st EXCEPT !.chunks = Append(@, chunk),
                  !.start = IF ns < 0 THEN 0 ELSE ns]

\* One iteration of the while loop: the mutated slice ends one character early.
ChunkIterShortSlice(st) ==
    LET end == st.start + st.chunk_size - 1
        chunk == Slice(st.text, st.start, end)
        ns == st.start + st.chunk_size - st.overlap
    IN [st EXCEPT !.chunks = Append(@, chunk),
                  !.start = IF ns < 0 THEN 0 ELSE ns]

\* The loop body with the step mutated to chunk_size - 2 * overlap.
ChunkIterDoubleOverlap(st) ==
    LET end == st.start + st.chunk_size
        chunk == Slice(st.text, st.start, end)
        ns == st.start + st.chunk_size - 2 * st.overlap
    IN [st EXCEPT !.chunks = Append(@, chunk),
                  !.start = IF ns < 0 THEN 0 ELSE ns]

\* One iteration of the while loop (lines 35-42).
ChunkIter(st) ==
    LET end == st.start + st.chunk_size
        chunk == Slice(st.text, st.start, end)
        ns == st.start + st.chunk_size - st.overlap
    IN [st EXCEPT !.chunks = Append(@, chunk),
                  !.start = IF ns < 0 THEN 0 ELSE ns]

\* Loop state on entry (lines 32-33).
ChunkEntry(text, chunk_size, overlap) ==
    [text |-> text, chunk_size |-> chunk_size, overlap |-> overlap,
     start |-> 0, chunks |-> <<>>]

RECURSIVE ChunkLoop(_)
ChunkLoop(st) ==
    IF st.start < Len(st.text) THEN ChunkLoop(ChunkIter(st)) ELSE st.chunks

\* chunk_text without the early return of lines 29-30, slicing once before the
\* loop test: the empty text yields one empty chunk (mutant)
chunk_text_no_guard(text, chunk_size, overlap) ==
    IF text = <<>> THEN << <<>> >> ELSE ChunkLoop(ChunkEntry(text, chunk_size, overlap))

\* chunk_text(text, chunk_size, overlap) as a function of its arguments.
chunk_text(text, chunk_size, overlap) ==
    IF text = <<>> THEN <<>> ELSE ChunkLoop(ChunkEntry(text, chunk_size, overlap))

(***************************************************************************)
(* State                                                                   *)
(***************************************************************************)
VARIABLES
    ck,               \* one run of chunk_text: its arguments, locals and position
    documents,        \* committed rows of table "documents": id -> row
    document_chunks,  \* committed rows of table "document_chunks"
    doc_id_seq,       \* last value of the documents.id sequence
    chunk_id_seq,     \* last value of the document_chunks.id sequence
    embeddings,       \* MockVectorStore._embeddings: embedding id -> vector
    ext_documents,    \* MockDocumentSystem._documents: mock_system_id -> entry
    uuid_seq,         \* number of uuid4() values drawn so far
    faults,           \* number of calls that raised so far
    req,              \* the requests being served: slot -> handler frame
    users,            \* committed rows of table "users": id -> row
    user_id_seq,      \* last value of the users.id sequence
    auth              \* the /auth request being served: handler frame

stores == <<documents, document_chunks, doc_id_seq, chunk_id_seq,
            embeddings, ext_documents, uuid_seq>>

\* the state of the /auth routes
accounts == <<users, user_id_seq, auth>>

vars == <<ck, documents, document_chunks, doc_id_seq, chunk_id_seq,
          embeddings, ext_documents, uuid_seq, faults, req,
          users, user_id_seq, auth>>

(***************************************************************************)
(* Values                                                                  *)
(***************************************************************************)
\* Optional[T]: None, or a value wrapped in a one-element tuple
None == <<>>
Some(x) == <<x>>
Get(o) == o[1]

\* SQL NULL in an integer or timestamp column
NULL == 0
\* the value datetime.now() yields (its value is not modelled)
Now == 1

\* ids of the registered, active users
UserIds == {1, 2}
\* titles a request may carry (title has min_length 1)
Titles == {"t1", "t2"}
\* contents a request may carry: two different texts of 3 characters (one
\* chunk each) and one of 501 characters (two chunks)
Contents == {MkText(3, 0), MkText(3, 1), MkText(501, 0)}
\* document ids a request may name: every id the sequence can hand out
DocIds == 1..MaxDocs
\* request slots
Slots == {1}

\* DocumentProcessor.extract_text: returns the provided content
extract_text(document_content) == document_content

\* str(uuid.uuid4()) mutated to return the same value every time
uuid4_fixed(drawn) == 1

\* str(uuid.uuid4()) (vector_store.py line 18, mock_doc_system.py line 18): a
\* value different from each of the `drawn` values drawn before
uuid4(drawn) == drawn + 1

\* MockVectorStore.generate_mock_embedding: 1536 random floats; only the
\* dimension of the vector is kept
generate_mock_embedding(text) == 1536

(***************************************************************************)
(* HTTP responses and the exceptions that produce them                     *)
(***************************************************************************)
Response(status, exc, detail, body) ==
    [status |-> status, exc |-> exc, detail |-> detail, body |-> body]

NoResponse == Response(0, "", "", None)

\* the not-found error of another resource (exceptions.py lines 16-20), the
\* mutant of DocumentNotFoundException
UserNotFoundException ==
    Response(404, "UserNotFoundException", "User not found", None)

DocumentNotFoundException ==
    Response(404, "DocumentNotFoundException", "Document not found", None)

DocumentProcessingException(detail) ==
    Response(500, "DocumentProcessingException", detail, None)

DatabaseOperationException(detail) ==
    Response(500, "DatabaseOperationException", detail, None)

(***************************************************************************)
(* Rows and queries                                                        *)
(***************************************************************************)
\* the Document object of row `id`
DocObject(id) == [id |-> id] @@ documents[id]

\* the column values of a Document object
DocRow(obj) ==
    [title |-> obj.title, content |-> obj.content, owner_id |-> obj.owner_id,
     mock_system_id |-> obj.mock_system_id, processed_at |-> obj.processed_at,
     created_at |-> obj.created_at]

\* select(Document).where(Document.id == document_id,
\*                        Document.owner_id == current_user.id)
\* the mutated query forgets the owner filter
SelectOwnedAnyOwner(document_id, user) ==
    IF document_id \in DOMAIN documents
    THEN Some(DocObject(document_id))
    ELSE None

SelectOwned(document_id, user) ==
    IF document_id \in DOMAIN documents /\ documents[document_id].owner_id = user
    THEN Some(DocObject(document_id))
    ELSE None

\* server_default=func.now() of documents.created_at (models.py line 50): a
\* time later than the created_at of each of the `inserted` rows inserted
\* before, kept as the number of the insert
created_at_default(inserted) == inserted + 1

\* the mutated query forgets the owner filter
DocumentsOfAnyone(user) == {DocObject(d) : d \in DOMAIN documents}

\* select(Document).where(Document.owner_id == current_user.id)
DocumentsOf(user) ==
    {DocObject(d) : d \in {x \in DOMAIN documents : documents[x].owner_id = user}}

\* order_by(Document.created_at.desc())
RECURSIVE OrderByCreatedDesc(_)
OrderByCreatedDesc(S) ==
    IF S = {} THEN <<>>
    ELSE LET c == CHOOSE x \in S : \A y \in S :
                     \/ x.created_at > y.created_at
                     \/ (x.created_at = y.created_at /\ x.id <= y.id)
         IN <<c>> \o OrderByCreatedDesc(S \ {c})

\* the chunk rows of a document
ChunksOf(document_id) == {c \in document_chunks : c.document_id = document_id}

RECURSIVE OrderById(_)
OrderById(S) ==
    IF S = {} THEN <<>>
    ELSE LET c == CHOOSE x \in S : \A y \in S : x.id <= y.id
         IN <<c>> \o OrderById(S \ {c})

\* order_by mutated to descending chunk_order
RECURSIVE OrderByChunkOrderDesc(_)
OrderByChunkOrderDesc(S) ==
    IF S = {} THEN <<>>
    ELSE LET c == CHOOSE x \in S : \A y \in S :
                     \/ x.chunk_order > y.chunk_order
                     \/ (x.chunk_order = y.chunk_order /\ x.id >= y.id)
         IN <<c>> \o OrderByChunkOrderDesc(S \ {c})

RECURSIVE OrderByChunkOrder(_)
OrderByChunkOrder(S) ==
    IF S = {} THEN <<>>
    ELSE LET c == CHOOSE x \in S : \A y \in S :
                     \/ x.chunk_order < y.chunk_order
                     \/ (x.chunk_order = y.chunk_order /\ x.id <= y.id)
         IN <<c>> \o OrderByChunkOrder(S \ {c})

\* the collection loaded without the join on document_id (mutant)
LoadChunksAll(document_id) == OrderById(document_chunks)

\* selectinload(Document.chunks): the collection loaded with the document
LoadChunks(document_id) == OrderById(ChunksOf(document_id))

\* f without the key k
Drop(f, k) == [x \in (DOMAIN f) \ {k} |-> f[x]]

(***************************************************************************)
(* Mock services                                                           *)
(***************************************************************************)
\* MockVectorStore.delete_embedding: the mutant leaves the store as it is
delete_embedding_noop(store, embedding_id) == store

\* MockVectorStore.delete_embedding: the store afterwards
delete_embedding(store, embedding_id) ==
    IF embedding_id \in DOMAIN store THEN Drop(store, embedding_id) ELSE store

\* MockVectorStore.get_embedding: the vector, or None
get_embedding(embedding_id) ==
    IF embedding_id \in DOMAIN embeddings THEN Some(embeddings[embedding_id]) ELSE None

\* MockDocumentSystem.delete_document: the store afterwards
ext_delete_document(store, mock_system_id) ==
    IF mock_system_id \in DOMAIN store THEN Drop(store, mock_system_id) ELSE store

\* MockDocumentSystem.get_document_content: the content, or None
get_document_content(mock_system_id) ==
    IF mock_system_id \in DOMAIN ext_documents
    THEN Some(ext_documents[mock_system_id].content)
    ELSE None

(***************************************************************************)
(* Users and credentials                                                   *)
(***************************************************************************)
\* emails and passwords a request to /auth may carry
Emails == {"a@example.com", "b@example.com"}
Passwords == {"password1", "password2"}

\* get_password_hash: the bcrypt hash of the password; the salt is not
\* modelled
get_password_hash(password) == [scheme |-> "bcrypt", secret |-> password]

\* verify_password(plain_password, hashed_password)
verify_password(plain_password, hashed_password) ==
    hashed_password.scheme = "bcrypt" /\ hashed_password.secret = plain_password

\* create_access_token(data): the signed token, kept as its payload without
\* the expiry time
create_access_token(data) == [jwt |-> data]

\* InvalidCredentialsException(): 401 with the WWW-Authenticate header
InvalidCredentialsException ==
    [headers |-> [WWW_Authenticate |-> "Bearer"]]
        @@ Response(401, "InvalidCredentialsException",
                    "Could not validate credentials", None)

\* the User object of row `id`
UserObject(id) == [id |-> id] @@ users[id]

\* the mutated query finds no user
SelectUserByEmailNone(email) == None

\* select(User).where(User.email == email): scalar_one_or_none
SelectUserByEmail(email) ==
    IF \E id \in DOMAIN users : users[id].email = email
    THEN Some(UserObject(CHOOSE id \in DOMAIN users : users[id].email = email))
    ELSE None

\* the users the document routes are called by: registered and active
RegisteredUsers ==
    [id \in UserIds |->
        [email |-> IF id = 1 THEN "a@example.com" ELSE "b@example.com",
         hashed_password |-> get_password_hash("password1"),
         is_active |-> TRUE]]

\* what the last answered /auth request was: its kind and its response
NoLast == [case |-> "", resp |-> NoResponse]

IdleAuth ==
    [op |-> "idle", pc |-> "idle",
     email |-> "",              \* user_in.email / form_data.username
     password |-> "",           \* user_in.password / form_data.password
     case |-> "",               \* which branch the handler took
     resp |-> NoResponse,
     pre |-> <<>>,              \* table users when the request arrived
     last |-> NoLast]

(***************************************************************************)
(* Handler frames                                                          *)
(***************************************************************************)
\* what the stores held when the request arrived (kept to state the effect
\* of the request)
Snapshot ==
    [documents |-> documents, document_chunks |-> document_chunks,
     embeddings |-> embeddings, ext_documents |-> ext_documents,
     uuid_seq |-> uuid_seq]

NoSnapshot ==
    [documents |-> <<>>, document_chunks |-> {}, embeddings |-> <<>>,
     ext_documents |-> <<>>, uuid_seq |-> 0]

IdleReq ==
    [op |-> "idle", pc |-> "idle",
     user |-> 0,                \* current_user.id
     document_id |-> 0,         \* path parameter
     title |-> None,            \* doc_in.title / doc_update.title
     content |-> None,          \* doc_in.content / doc_update.content
     mock_system_id |-> NULL,   \* create_document: mock_system_id
     db_document |-> None,      \* the Document object of the session
     loaded |-> <<>>,           \* db_document.chunks as loaded
     update_content |-> FALSE,  \* update_document: update_content
     i |-> 0,                   \* position of the running for loop
     chunks |-> <<>>,           \* result of chunk_text
     added |-> <<>>,            \* DocumentChunk objects added to the session
     deleted |-> {},            \* ids of chunk rows deleted in the session
     failed_at |-> "",          \* pc at which a call raised
     resp |-> NoResponse,
     pre |-> NoSnapshot]

\* the idle value of the chunker run while requests are served
CkIdle == [pc |-> "idle", out |-> <<>>] @@ ChunkEntry(<<>>, 0, 0)

InitStores ==
    /\ documents = <<>>
    /\ document_chunks = {}
    /\ doc_id_seq = 0
    /\ chunk_id_seq = 0
    /\ embeddings = <<>>
    /\ ext_documents = <<>>
    /\ uuid_seq = 0
    /\ faults = 0
    /\ req = [r \in Slots |-> IdleReq]

\* the document routes start with the registered users and no /auth request
InitAccounts ==
    /\ users = RegisteredUsers
    /\ user_id_seq = Cardinality(UserIds)
    /\ auth = IdleAuth

Init == ck = CkIdle /\ InitStores /\ InitAccounts

\* number of uuid4() values a request with this content can draw
UuidsNeeded(content) == Len(chunk_text(content, DefaultChunkSize, DefaultOverlap))

(***************************************************************************)
(* Session: rollback and commit                                            *)
(***************************************************************************)
\* db.rollback(): the pending changes of the session are discarded
Rollback(f) == [f EXCEPT !.added = <<>>, !.deleted = {}]

\* the chunk rows a commit inserts: ids are drawn from the sequence in the
\* order the objects were added
InsertedChunks(f) ==
    {[id |-> chunk_id_seq + k] @@ f.added[k] : k \in 1..Len(f.added)}

\* the table after a commit that loses the session's DELETEs (mutant)
CommittedChunksNoDelete(f) == document_chunks \cup InsertedChunks(f)

\* the table document_chunks after the session's DELETEs and INSERTs
CommittedChunks(f) ==
    {c \in document_chunks : c.id \notin f.deleted} \cup InsertedChunks(f)

(***************************************************************************)
(* Requests                                                                *)
(***************************************************************************)
\* the frame of a handler that starts to serve a request
Frame(op, pc, user, document_id, title, content) ==
    [IdleReq EXCEPT !.op = op, !.pc = pc, !.user = user,
                    !.document_id = document_id, !.title = title,
                    !.content = content, !.pre = Snapshot]

\* the handler ends with response `resp`
Finish(f, resp) == [f EXCEPT !.pc = "done", !.resp = resp]

\* a call made at position `pc` raised; the handler rolls back and ends with `resp`
Raise(f, pc, resp) ==
    [Rollback(f) EXCEPT !.pc = "done", !.resp = resp, !.failed_at = pc]

\* the response has been sent and get_db has closed the session
Return(r) ==
    /\ req[r].pc = "done"
    /\ req' = [req EXCEPT ![r] = IdleReq]
    /\ UNCHANGED <<ck, accounts, stores, faults>>

(***************************************************************************)
(* create_document: POST /documents/ {title, content}                      *)
(***************************************************************************)
\* the request arrives; 1. mock_document_system.upload_document (lines 37-40);
\* the body is drawn from `titles` and `contents`, the id and uuid counters
\* stay within max_docs and max_uuids
CreateUploadOf(r, titles, contents, max_docs, max_uuids) ==
    \E u \in UserIds, t \in titles, c \in contents :
        LET mid == uuid4(uuid_seq)
            f == Frame("create", "flush", u, 0, Some(t), Some(c))
        IN /\ req[r].op = "idle"
           /\ doc_id_seq < max_docs
           /\ uuid_seq + 1 + UuidsNeeded(c) <= max_uuids
           /\ uuid_seq' = mid
           /\ ext_documents' = ext_documents @@
                 (mid :> [title |-> t, content |-> c, mock_system_id |-> mid])
           /\ req' = [req EXCEPT ![r] = [f EXCEPT !.mock_system_id = mid]]
           /\ UNCHANGED <<ck, accounts, documents, document_chunks, doc_id_seq, chunk_id_seq,
                          embeddings, faults>>

CreateUpload(r) == CreateUploadOf(r, Titles, Contents, MaxDocs, MaxUuids)

\* 2. with db.commit() in the place of db.flush(): the unprocessed row is
\* committed (mutant)
CreateFlushCommits(r) ==
    LET f == req[r]
        id == doc_id_seq + 1
        doc == [id |-> id, title |-> Get(f.title), content |-> Get(f.content),
                owner_id |-> f.user, mock_system_id |-> f.mock_system_id,
                processed_at |-> NULL,
                created_at |-> created_at_default(doc_id_seq)]
    IN /\ f.op = "create" /\ f.pc = "flush"
       /\ doc_id_seq' = id
       /\ documents' = documents @@ (id :> DocRow(doc))
       /\ req' = [req EXCEPT ![r] =
                    [f EXCEPT !.db_document = Some(doc), !.pc = "chunk"]]
       /\ UNCHANGED <<ck, accounts, document_chunks, chunk_id_seq, embeddings,
                      ext_documents, uuid_seq, faults>>

\* 2. Document(...), db.add, db.flush (lines 43-51): the id is drawn
CreateFlush(r) ==
    LET f == req[r]
        id == doc_id_seq + 1
    IN /\ f.op = "create" /\ f.pc = "flush"
       /\ doc_id_seq' = id
       /\ req' = [req EXCEPT ![r] =
                    [f EXCEPT !.db_document =
                                  Some([id |-> id, title |-> Get(f.title),
                                        content |-> Get(f.content),
                                        owner_id |-> f.user,
                                        mock_system_id |-> f.mock_system_id,
                                        processed_at |-> NULL,
                                        created_at |->
                                            created_at_default(doc_id_seq)]),
                              !.pc = "chunk"]]
       /\ UNCHANGED <<ck, accounts, documents, document_chunks, chunk_id_seq, embeddings,
                      ext_documents, uuid_seq, faults>>

\* 3. extract_text and chunk_text (create: lines 54-55, update: lines 176-177)
ChunkContent(r, op) ==
    LET f == req[r]
        chunks == chunk_text(extract_text(Get(f.db_document).content),
                             DefaultChunkSize, DefaultOverlap)
    IN /\ f.op = op /\ f.pc = "chunk"
       /\ req' = [req EXCEPT ![r] =
                    [f EXCEPT !.chunks = chunks, !.i = 0,
                              !.pc = IF chunks = <<>> THEN "commit" ELSE "embed"]]
       /\ UNCHANGED <<ck, accounts, stores, faults>>

\* the DocumentChunk object of chunk i: the mutant numbers the chunks from 1
NewChunkFromOne(document_id, text, i, embedding_id) ==
    [document_id |-> document_id, chunk_text |-> text, chunk_order |-> i + 1,
     embedding_id |-> embedding_id]

\* DocumentChunk(document_id=, chunk_text=, chunk_order=i, embedding_id=)
\* (create: lines 65-70, update: lines 186-191)
NewChunk(document_id, text, i, embedding_id) ==
    [document_id |-> document_id, chunk_text |-> text, chunk_order |-> i,
     embedding_id |-> embedding_id]

\* 4. one pass of `for i, chunk_text in enumerate(chunks)`: generate_mock_embedding,
\* add_embedding, DocumentChunk(...), db.add (create: lines 58-71, update: 180-192)
EmbedChunk(r, op) ==
    LET f == req[r]
        text == f.chunks[f.i + 1]
        embedding_id == uuid4(uuid_seq)
        db_chunk == NewChunk(Get(f.db_document).id, text, f.i, embedding_id)
    IN /\ f.op = op /\ f.pc = "embed"
       /\ uuid_seq' = embedding_id
       /\ embeddings' = embeddings @@ (embedding_id :> generate_mock_embedding(text))
       /\ req' = [req EXCEPT ![r] =
                    [f EXCEPT !.added = Append(@, db_chunk), !.i = f.i + 1,
                              !.pc = IF f.i + 1 = Len(f.chunks)
                                     THEN "commit" ELSE "embed"]]
       /\ UNCHANGED <<ck, accounts, documents, document_chunks, doc_id_seq, chunk_id_seq,
                      ext_documents, faults>>

CreateChunk(r) == ChunkContent(r, "create")

CreateEmbed(r) == EmbedChunk(r, "create")

\* processed_at = datetime.now(); db.commit() (lines 74-75)
CreateCommit(r) ==
    LET f == req[r]
        doc == [Get(f.db_document) EXCEPT !.processed_at = Now]
    IN /\ f.op = "create" /\ f.pc = "commit"
       /\ documents' = documents @@ (doc.id :> DocRow(doc))
       /\ document_chunks' = CommittedChunks(f)
       /\ chunk_id_seq' = chunk_id_seq + Len(f.added)
       /\ req' = [req EXCEPT ![r] =
                    [f EXCEPT !.db_document = Some(doc), !.added = <<>>,
                              !.pc = "refresh"]]
       /\ UNCHANGED <<ck, accounts, doc_id_seq, embeddings, ext_documents, uuid_seq, faults>>

\* db.refresh(db_document); return db_document (lines 76-83)
CreateRefresh(r) ==
    LET f == req[r]
    IN /\ f.op = "create" /\ f.pc = "refresh"
       /\ req' = [req EXCEPT ![r] =
                    Finish(f, Response(201, "", "", Some(DocObject(Get(f.db_document).id))))]
       /\ UNCHANGED <<ck, accounts, stores, faults>>

\* the request arrives and upload_document raises: except branch (lines 84-89)
CreateUploadFail(r) ==
    \E u \in UserIds, t \in Titles, c \in Contents :
        /\ req[r].op = "idle"
        /\ faults < MaxFaults
        /\ faults' = faults + 1
        /\ req' = [req EXCEPT ![r] =
                     Raise(Frame("create", "upload", u, 0, Some(t), Some(c)), "upload",
                           DocumentProcessingException(
                               "Failed to create and process document"))]
        /\ UNCHANGED <<ck, accounts, stores>>

\* a later call inside the try block raises: the mutant except branch does not
\* roll back, so the flushed document and the chunks added so far are committed
CreateFailNoRollback(r) ==
    LET f == req[r]
    IN /\ f.op = "create"
       /\ f.pc \in {"flush", "chunk", "embed", "commit", "refresh"}
       /\ faults < MaxFaults
       /\ faults' = faults + 1
       /\ documents' = IF f.db_document # None /\ f.pc # "refresh"
                       THEN documents @@
                            (Get(f.db_document).id :> DocRow(Get(f.db_document)))
                       ELSE documents
       /\ document_chunks' = CommittedChunks(f)
       /\ chunk_id_seq' = chunk_id_seq + Len(f.added)
       /\ req' = [req EXCEPT ![r] =
                    Raise(f, f.pc, DocumentProcessingException(
                                       "Failed to create and process document"))]
       /\ UNCHANGED <<ck, accounts, doc_id_seq, embeddings, ext_documents, uuid_seq>>

\* a later call inside the try block raises: except branch (lines 84-89)
CreateFail(r) ==
    LET f == req[r]
    IN /\ f.op = "create"
       /\ f.pc \in {"flush", "chunk", "embed", "commit", "refresh"}
       /\ faults < MaxFaults
       /\ faults' = faults + 1
       /\ req' = [req EXCEPT ![r] =
                    Raise(f, f.pc, DocumentProcessingException(
                                       "Failed to create and process document"))]
       /\ UNCHANGED <<ck, accounts, stores>>

(***************************************************************************)
(* update_document: PUT /documents/{document_id} {title?, content?}        *)
(***************************************************************************)
\* lines 154-162 with the comparison mutated: any supplied content counts as
\* changed
ApplyUpdateAlways(doc, title, content) ==
    LET titled == IF title # None THEN [doc EXCEPT !.title = Get(title)] ELSE doc
        changed == content # None
    IN [doc |-> IF changed THEN [titled EXCEPT !.content = Get(content)] ELSE titled,
        update_content |-> changed]

\* lines 154-162 mutated: changed content is assigned but not re-processed
ApplyUpdateNoReprocess(doc, title, content) ==
    LET titled == IF title # None THEN [doc EXCEPT !.title = Get(title)] ELSE doc
        changed == content # None /\ doc.content # Get(content)
    IN [doc |-> IF changed THEN [titled EXCEPT !.content = Get(content)] ELSE titled,
        update_content |-> FALSE]

\* lines 154-162 mutated: a changed content is given a new external id, as if
\* the update uploaded the content again
ApplyUpdateNewExternalId(doc, title, content) ==
    LET titled == IF title # None THEN [doc EXCEPT !.title = Get(title)] ELSE doc
        changed == content # None /\ doc.content # Get(content)
    IN [doc |-> IF changed
                THEN [titled EXCEPT !.content = Get(content),
                                    !.mock_system_id = uuid4(uuid_seq)]
                ELSE titled,
        update_content |-> changed]

\* lines 154-162: the title is assigned when given, the content when given and
\* different from the stored one
ApplyUpdate(doc, title, content) ==
    LET titled == IF title # None THEN [doc EXCEPT !.title = Get(title)] ELSE doc
        changed == content # None /\ doc.content # Get(content)
    IN [doc |-> IF changed THEN [titled EXCEPT !.content = Get(content)] ELSE titled,
        update_content |-> changed]

\* the request arrives; the ownership-scoped select finds no row (lines 145-152)
UpdateNotFound(r) ==
    \E u \in UserIds, d \in DocIds :
        /\ req[r].op = "idle"
        /\ SelectOwned(d, u) = None
        /\ req' = [req EXCEPT ![r] =
                     Finish(Frame("update", "load", u, d, None, None),
                            DocumentNotFoundException)]
        /\ UNCHANGED <<ck, accounts, stores, faults>>

\* the request arrives; the ownership-scoped select finds the row with its
\* chunks (lines 145-150) and the body is applied (lines 154-164); the path
\* parameter is drawn from `docs`, the body from `titles` and `contents`, and
\* the uuid counter stays within max_uuids
UpdateLoadOf(r, docs, titles, contents, max_uuids) ==
    \E u \in UserIds, d \in docs, t \in {None} \cup {Some(x) : x \in titles},
       c \in {None} \cup {Some(x) : x \in contents} :
        LET found == SelectOwned(d, u)
            loaded == LoadChunks(d)
            upd == ApplyUpdate(Get(found), t, c)
            f == Frame("update", "load", u, d, t, c)
        IN /\ req[r].op = "idle"
           /\ found # None
           /\ (c # None => uuid_seq + UuidsNeeded(Get(c)) <= max_uuids)
           /\ req' = [req EXCEPT ![r] =
                        [f EXCEPT !.db_document = Some(upd.doc),
                                  !.loaded = loaded,
                                  !.update_content = upd.update_content,
                                  !.i = 0,
                                  !.pc = IF ~upd.update_content THEN "commit"
                                         ELSE IF loaded = <<>> THEN "flush"
                                         ELSE "del_old"]]
           /\ UNCHANGED <<ck, accounts, stores, faults>>

UpdateLoad(r) == UpdateLoadOf(r, DocIds, Titles, Contents, MaxUuids)

\* one pass of `for chunk in chunks_to_delete` (lines 169-172)
UpdateDeleteOld(r) ==
    LET f == req[r]
        chunk == f.loaded[f.i + 1]
    IN /\ f.op = "update" /\ f.pc = "del_old"
       /\ embeddings' = IF chunk.embedding_id # NULL
                        THEN delete_embedding(embeddings, chunk.embedding_id)
                        ELSE embeddings
       /\ req' = [req EXCEPT ![r] =
                    [f EXCEPT !.deleted = @ \cup {chunk.id}, !.i = f.i + 1,
                              !.pc = IF f.i + 1 = Len(f.loaded)
                                     THEN "flush" ELSE "del_old"]]
       /\ UNCHANGED <<ck, accounts, documents, document_chunks, doc_id_seq, chunk_id_seq,
                      ext_documents, uuid_seq, faults>>

\* db.flush() (line 173): the DELETEs are sent inside the open transaction
UpdateFlush(r) ==
    LET f == req[r]
    IN /\ f.op = "update" /\ f.pc = "flush"
       /\ req' = [req EXCEPT ![r] = [f EXCEPT !.pc = "chunk"]]
       /\ UNCHANGED <<ck, accounts, stores, faults>>

UpdateChunk(r) == ChunkContent(r, "update")

UpdateEmbed(r) == EmbedChunk(r, "update")

\* a call inside the try block raises: the mutant except branch does not roll back
UpdateFailNoRollback(r) ==
    LET f == req[r]
    IN /\ f.op = "update"
       /\ f.pc \in {"del_old", "flush", "chunk", "embed"}
       /\ faults < MaxFaults
       /\ faults' = faults + 1
       /\ documents' = [documents EXCEPT ![f.document_id] = DocRow(Get(f.db_document))]
       /\ document_chunks' = CommittedChunks(f)
       /\ req' = [req EXCEPT ![r] =
                    Raise(f, f.pc, DocumentProcessingException(
                                       "Failed to re-process document content"))]
       /\ UNCHANGED <<ck, accounts, doc_id_seq, chunk_id_seq, embeddings, ext_documents, uuid_seq>>

\* a call inside the try block raises: except branch (lines 196-201)
UpdateFail(r) ==
    LET f == req[r]
    IN /\ f.op = "update"
       /\ f.pc \in {"del_old", "flush", "chunk", "embed"}
       /\ faults < MaxFaults
       /\ faults' = faults + 1
       /\ req' = [req EXCEPT ![r] =
                    Raise(f, f.pc, DocumentProcessingException(
                                       "Failed to re-process document content"))]
       /\ UNCHANGED <<ck, accounts, stores>>

\* processed_at = datetime.now() when the content was re-processed (line 194);
\* db.commit() (line 203)
UpdateCommit(r) ==
    LET f == req[r]
        doc == IF f.update_content
               THEN [Get(f.db_document) EXCEPT !.processed_at = Now]
               ELSE Get(f.db_document)
    IN /\ f.op = "update" /\ f.pc = "commit"
       /\ documents' = [documents EXCEPT ![doc.id] = DocRow(doc)]
       /\ document_chunks' = CommittedChunks(f)
       /\ chunk_id_seq' = chunk_id_seq + Len(f.added)
       /\ req' = [req EXCEPT ![r] =
                    [f EXCEPT !.db_document = Some(doc), !.added = <<>>,
                              !.deleted = {}, !.pc = "refresh"]]
       /\ UNCHANGED <<ck, accounts, doc_id_seq, embeddings, ext_documents, uuid_seq, faults>>

\* db.refresh(db_document); return db_document (lines 204-206)
UpdateRefresh(r) ==
    LET f == req[r]
    IN /\ f.op = "update" /\ f.pc = "refresh"
       /\ req' = [req EXCEPT ![r] =
                    Finish(f, Response(200, "", "", Some(DocObject(Get(f.db_document).id))))]
       /\ UNCHANGED <<ck, accounts, stores, faults>>

\* db.commit() or db.refresh() raises outside the try block: the exception
\* leaves the route and get_db rolls back and raises (database.py lines 36-38)
UpdateUnhandled(r) ==
    LET f == req[r]
    IN /\ f.op = "update"
       /\ f.pc \in {"commit", "refresh"}
       /\ faults < MaxFaults
       /\ faults' = faults + 1
       /\ req' = [req EXCEPT ![r] =
                    Raise(f, f.pc, DatabaseOperationException("Database error"))]
       /\ UNCHANGED <<ck, accounts, stores>>

(***************************************************************************)
(* delete_document: DELETE /documents/{document_id}                        *)
(***************************************************************************)
\* the request arrives; the ownership-scoped select (lines 220-227); the
\* path parameter is drawn from `docs`
DeleteLoadOf(r, docs) ==
    \E u \in UserIds, d \in docs :
        LET found == SelectOwned(d, u)
            f == Frame("delete", "load", u, d, None, None)
        IN /\ req[r].op = "idle"
           /\ req' = [req EXCEPT ![r] =
                        IF found = None
                        THEN Finish(f, DocumentNotFoundException)
                        ELSE [f EXCEPT !.db_document = found,
                                       !.loaded = LoadChunks(d),
                                       !.i = 0, !.pc = "del_ext"]]
           /\ UNCHANGED <<ck, accounts, stores, faults>>

DeleteLoad(r) == DeleteLoadOf(r, DocIds)

\* line 231 with the result of the call checked: a missing entry aborts the
\* deletion (mutant)
DeleteExternalChecked(r) ==
    LET f == req[r]
        mid == Get(f.db_document).mock_system_id
    IN /\ f.op = "delete" /\ f.pc = "del_ext"
       /\ ext_documents' = ext_delete_document(ext_documents, mid)
       /\ req' = [req EXCEPT ![r] =
                    IF mid \in DOMAIN ext_documents
                    THEN [f EXCEPT !.pc = IF f.loaded = <<>> THEN "commit" ELSE "del_emb"]
                    ELSE Raise(f, f.pc, DatabaseOperationException(
                                            "Failed to delete document"))]
       /\ UNCHANGED <<ck, accounts, documents, document_chunks, doc_id_seq, chunk_id_seq,
                      embeddings, uuid_seq, faults>>

\* mock_document_system.delete_document(db_document.mock_system_id) (line 231)
DeleteExternal(r) ==
    LET f == req[r]
    IN /\ f.op = "delete" /\ f.pc = "del_ext"
       /\ ext_documents' =
             ext_delete_document(ext_documents, Get(f.db_document).mock_system_id)
       /\ req' = [req EXCEPT ![r] =
                    [f EXCEPT !.pc = IF f.loaded = <<>> THEN "commit" ELSE "del_emb"]]
       /\ UNCHANGED <<ck, accounts, documents, document_chunks, doc_id_seq, chunk_id_seq,
                      embeddings, uuid_seq, faults>>

\* one pass of `for chunk in db_document.chunks` (lines 234-236)
DeleteEmbedding(r) ==
    LET f == req[r]
        chunk == f.loaded[f.i + 1]
    IN /\ f.op = "delete" /\ f.pc = "del_emb"
       /\ embeddings' = IF chunk.embedding_id # NULL
                        THEN delete_embedding(embeddings, chunk.embedding_id)
                        ELSE embeddings
       /\ req' = [req EXCEPT ![r] =
                    [f EXCEPT !.i = f.i + 1,
                              !.pc = IF f.i + 1 = Len(f.loaded)
                                     THEN "commit" ELSE "del_emb"]]
       /\ UNCHANGED <<ck, accounts, documents, document_chunks, doc_id_seq, chunk_id_seq,
                      ext_documents, uuid_seq, faults>>

\* the rows db.delete(db_document) removes: the mutant forgets the cascade
CascadeNone(f) == {}

\* the rows db.delete(db_document) removes with the document: the loaded
\* chunks (models.py, relationship cascade="all, delete-orphan")
Cascade(f) == {f.loaded[k].id : k \in 1..Len(f.loaded)}

\* db.delete(db_document); db.commit() (lines 239-240); 204 No Content
DeleteCommit(r) ==
    LET f == req[r]
        doc == Get(f.db_document)
        g == [f EXCEPT !.deleted = Cascade(f)]
    IN /\ f.op = "delete" /\ f.pc = "commit"
       /\ documents' = Drop(documents, doc.id)
       /\ document_chunks' = CommittedChunks(g)
       /\ req' = [req EXCEPT ![r] = Finish(f, Response(204, "", "", None))]
       /\ UNCHANGED <<ck, accounts, doc_id_seq, chunk_id_seq, embeddings, ext_documents,
                      uuid_seq, faults>>

\* a call inside the try block raises: the mutant except branch does not roll
\* back, so the deletion is committed
DeleteFailNoRollback(r) ==
    LET f == req[r]
        g == [f EXCEPT !.deleted = Cascade(f)]
    IN /\ f.op = "delete"
       /\ f.pc \in {"del_ext", "del_emb", "commit"}
       /\ faults < MaxFaults
       /\ faults' = faults + 1
       /\ documents' = Drop(documents, f.document_id)
       /\ document_chunks' = CommittedChunks(g)
       /\ req' = [req EXCEPT ![r] =
                    Raise(f, f.pc, DatabaseOperationException("Failed to delete document"))]
       /\ UNCHANGED <<ck, accounts, doc_id_seq, chunk_id_seq, embeddings, ext_documents, uuid_seq>>

\* a call inside the try block raises: except branch (lines 244-247)
DeleteFail(r) ==
    LET f == req[r]
    IN /\ f.op = "delete"
       /\ f.pc \in {"del_ext", "del_emb", "commit"}
       /\ faults < MaxFaults
       /\ faults' = faults + 1
       /\ req' = [req EXCEPT ![r] =
                    Raise(f, f.pc, DatabaseOperationException("Failed to delete document"))]
       /\ UNCHANGED <<ck, accounts, stores>>

(***************************************************************************)
(* get_document and get_document_chunks                                    *)
(***************************************************************************)
\* GET /documents/{document_id} (lines 120-129)
GetDocument(r) ==
    \E u \in UserIds, d \in DocIds :
        LET found == SelectOwned(d, u)
            f == Frame("get", "load", u, d, None, None)
        IN /\ req[r].op = "idle"
           /\ req' = [req EXCEPT ![r] =
                        IF found = None
                        THEN Finish(f, DocumentNotFoundException)
                        ELSE Finish(f, Response(200, "", "", found))]
           /\ UNCHANGED <<ck, accounts, stores, faults>>

\* GET /documents/ (lines 92-107)
ListDocuments(r) ==
    \E u \in UserIds :
        LET f == Frame("list", "load", u, 0, None, None)
        IN /\ req[r].op = "idle"
           /\ req' = [req EXCEPT ![r] =
                        Finish(f, Response(200, "", "",
                                           OrderByCreatedDesc(DocumentsOf(u))))]
           /\ UNCHANGED <<ck, accounts, stores, faults>>

\* GET /documents/{document_id}/chunks: first, verify document ownership
\* (lines 261-268)
ChunksVerify(r) ==
    \E u \in UserIds, d \in DocIds :
        LET found == SelectOwned(d, u)
            f == Frame("get_chunks", "load", u, d, None, None)
        IN /\ req[r].op = "idle"
           /\ req' = [req EXCEPT ![r] =
                        IF found = None
                        THEN Finish(f, DocumentNotFoundException)
                        ELSE [f EXCEPT !.db_document = found, !.pc = "chunks"]]
           /\ UNCHANGED <<ck, accounts, stores, faults>>

\* then, retrieve chunks ordered by chunk_order (lines 271-278)
ChunksSelect(r) ==
    LET f == req[r]
    IN /\ f.op = "get_chunks" /\ f.pc = "chunks"
       /\ req' = [req EXCEPT ![r] =
                    Finish(f, Response(200, "", "",
                                       OrderByChunkOrder(ChunksOf(f.document_id))))]
       /\ UNCHANGED <<ck, accounts, stores, faults>>

(***************************************************************************)
(* Requests served one at a time                                           *)
(***************************************************************************)
Next ==
    \E r \in Slots :
        \/ Return(r)
        \/ CreateUpload(r) \/ CreateFlush(r) \/ CreateChunk(r) \/ CreateEmbed(r)
        \/ CreateCommit(r) \/ CreateRefresh(r) \/ CreateUploadFail(r) \/ CreateFail(r)
        \/ UpdateNotFound(r) \/ UpdateLoad(r) \/ UpdateDeleteOld(r) \/ UpdateFlush(r)
        \/ UpdateChunk(r) \/ UpdateEmbed(r) \/ UpdateCommit(r) \/ UpdateRefresh(r)
        \/ UpdateFail(r) \/ UpdateUnhandled(r)
        \/ DeleteLoad(r) \/ DeleteExternal(r) \/ DeleteEmbedding(r)
        \/ DeleteCommit(r) \/ DeleteFail(r)
        \/ GetDocument(r) \/ ListDocuments(r) \/ ChunksVerify(r) \/ ChunksSelect(r)

Spec == Init /\ [][Next]_vars

(***************************************************************************)
(* The chunker run as a state machine                                      *)
(***************************************************************************)
\* iteration cap of the model; never reached when overlap < chunk_size
MaxIter == MaxLen + 2

\* The (text, chunk_size, overlap) triples the chunker is run on.
ChunkInputs ==
    {<<MkText(n, 0), s, o>> : n \in 0..MaxLen, s \in 1..MaxSize, o \in 0..MaxOverlap}
    \cup {<<MkText(n, 0), DefaultChunkSize, DefaultOverlap>> :
            n \in {0, 1, 26, 50, 51, 450, 451, 480, 500, 501}}

InitChunk ==
    \E inp \in ChunkInputs :
        /\ ck = [pc |-> "entry", out |-> <<>>] @@ ChunkEntry(inp[1], inp[2], inp[3])
        /\ InitStores
        /\ InitAccounts

\* `if not text: return []` (lines 29-30), else fall into the loop.
ChunkStart ==
    /\ ck.pc = "entry"
    /\ ck' = IF ck.text = <<>>
             THEN [ck EXCEPT !.pc = "done", !.out = <<>>]
             ELSE [ck EXCEPT !.pc = "loop"]
    /\ UNCHANGED <<stores, faults, req, accounts>>

\* One pass through the body of `while start < len(text)`.
ChunkStep ==
    /\ ck.pc = "loop"
    /\ ck.start < Len(ck.text)
    /\ Len(ck.chunks) < MaxIter
    /\ ck' = [ChunkIter(ck) EXCEPT !.pc = "loop"]
    /\ UNCHANGED <<stores, faults, req, accounts>>

\* Loop exit and `return chunks` (lines 43-44).
ChunkReturn ==
    /\ ck.pc = "loop"
    /\ ~(ck.start < Len(ck.text))
    /\ ck' = [ck EXCEPT !.pc = "done", !.out = ck.chunks]
    /\ UNCHANGED <<stores, faults, req, accounts>>

NextChunk == ChunkStart \/ ChunkStep \/ ChunkReturn

SpecChunk == InitChunk /\ [][NextChunk]_vars

(***************************************************************************)
(* Properties of chunk_text                                                *)
(***************************************************************************)
\* the run has returned and its arguments satisfy 0 <= overlap < chunk_size
ChunkDoneValid ==
    /\ ck.pc = "done"
    /\ 0 <= ck.overlap
    /\ ck.overlap < ck.chunk_size

\* number of slice starts 0, step, 2*step, ... that lie before the end of text
StartsBelow(n, step) == Cardinality({i \in 0..n : i * step < n})

\* C9 (as stated): for every non-empty text and 0 <= overlap < size the number
\* of chunks is ceil((len(text) - overlap) / (size - overlap)); with size=500,
\* overlap=50 a text of length 480 gives 1 chunk and one of length 501 gives 2.
C9_CountAsStated ==
    (ChunkDoneValid /\ ck.text # <<>>) =>
        /\ Len(ck.out) = CeilDiv(Len(ck.text) - ck.overlap, ck.chunk_size - ck.overlap)
        /\ (ck.chunk_size = 500 /\ ck.overlap = 50 /\ Len(ck.text) = 480
                => Len(ck.out) = 1)
        /\ (ck.chunk_size = 500 /\ ck.overlap = 50 /\ Len(ck.text) = 501
                => Len(ck.out) = 2)

\* C9 (amended): for every non-empty text and 0 <= overlap < size the number of
\* chunks is ceil(len(text) / (size - overlap)); with size=500, overlap=50 a
\* text of length 480 gives 2 chunks and a text of length 501 gives 2 chunks.
C9_ChunkCount ==
    (ChunkDoneValid /\ ck.text # <<>>) =>
        /\ Len(ck.out) = CeilDiv(Len(ck.text), ck.chunk_size - ck.overlap)
        /\ (ck.chunk_size = 500 /\ ck.overlap = 50 /\ Len(ck.text) = 480
                => Len(ck.out) = 2)
        /\ (ck.chunk_size = 500 /\ ck.overlap = 50 /\ Len(ck.text) = 501
                => Len(ck.out) = 2)

\* C9 witness: the default-sized run on a text of 480 characters has returned
\* two chunks, the second being the 30 characters from position 450 on.
C9_Witness ==
    /\ ChunkDoneValid
    /\ ck.chunk_size = 500 /\ ck.overlap = 50 /\ Len(ck.text) = 480
    /\ Len(ck.out) = 2
    /\ Len(ck.out[2]) = 30

\* C10: for every text and 0 <= overlap < chunk_size the result is exactly the
\* sequence whose i-th element (i from 0) is text[i*step : i*step + chunk_size],
\* step = chunk_size - overlap, for every i with i*step < len(text), and
\* nothing else; the empty text gives the empty sequence.
C10_SlicesExact ==
    ChunkDoneValid =>
        LET step == ck.chunk_size - ck.overlap
            n == Len(ck.text)
            cnt == StartsBelow(n, step)
        IN /\ Len(ck.out) = cnt
           /\ \A i \in 0..(cnt - 1) :
                /\ Len(ck.out[i + 1]) = Min(ck.chunk_size, n - i * step)
                /\ \A k \in 1..Len(ck.out[i + 1]) :
                      ck.out[i + 1][k] = ck.text[i * step + k]
           /\ (ck.text = <<>> => ck.out = <<>>)
           /\ ck.out = chunk_text(ck.text, ck.chunk_size, ck.overlap)

\* C10 witness: a returned run with overlap > 0 that produced at least three
\* chunks, the last one shorter than chunk_size.
C10_Witness ==
    /\ ChunkDoneValid
    /\ ck.overlap > 0
    /\ Len(ck.out) >= 3
    /\ Len(ck.out[Len(ck.out)]) < ck.chunk_size
    /\ Len(ck.out[1]) = ck.chunk_size

\* a chunk without its first `overlap` characters; empty when it is no longer
\* than the overlap
StripOverlap(chunk, overlap) ==
    IF Len(chunk) <= overlap THEN <<>> ELSE SubSeq(chunk, overlap + 1, Len(chunk))

\* the concatenation of the chunks from position k on, each stripped of its
\* first `overlap` characters
RECURSIVE ConcatStripped(_, _, _)
ConcatStripped(chunks, overlap, k) ==
    IF k > Len(chunks) THEN <<>>
    ELSE StripOverlap(chunks[k], overlap) \o ConcatStripped(chunks, overlap, k + 1)

\* the first chunk followed by every later chunk stripped of its overlap
Reassemble(chunks, overlap) ==
    IF chunks = <<>> THEN <<>> ELSE chunks[1] \o ConcatStripped(chunks, overlap, 2)

\* C14: for every text and 0 <= overlap < chunk_size, the first chunk
\* concatenated with every later chunk stripped of its first `overlap`
\* characters (empty when the chunk is shorter than the overlap) is exactly
\* the original text, so chunks read in order reconstruct the content.
C14_ReassembleIsText ==
    ChunkDoneValid => Reassemble(ck.out, ck.overlap) = ck.text

\* C14 witness: a returned run with overlap > 0 and at least three chunks
\* whose last chunk is no longer than the overlap
C14_Witness ==
    /\ ChunkDoneValid
    /\ ck.overlap > 0
    /\ Len(ck.out) >= 3
    /\ Len(ck.out[Len(ck.out)]) <= ck.overlap
    /\ Reassemble(ck.out, ck.overlap) = ck.text

(***************************************************************************)
(* Properties of the document handlers                                     *)
(***************************************************************************)
\* the frame of the request being served
F == req[1]

\* chunk_text with the defaults the handlers use
Chunker(content) == chunk_text(content, DefaultChunkSize, DefaultOverlap)

\* the chunk rows document d had when the request arrived
PriorChunks(d) == {c \in F.pre.document_chunks : c.document_id = d}

\* the chunk rows of document d are exactly `chunks`: the k-th row by
\* chunk_order holds the k-th text with chunk_order k - 1 and a non-null
\* embedding id that the embedding store holds
RowsMatch(d, chunks) ==
    LET rows == OrderByChunkOrder(ChunksOf(d))
    IN /\ Len(rows) = Len(chunks)
       /\ \A k \in 1..Len(rows) :
            /\ rows[k].chunk_text = chunks[k]
            /\ rows[k].chunk_order = k - 1
            /\ rows[k].embedding_id # NULL
            /\ get_embedding(rows[k].embedding_id) # None

\* C1: after a successful PUT by the owner whose content is given and differs
\* from the stored content: no chunk row the document had before remains,
\* every embedding id those rows referenced is absent from the embedding
\* store, and the document's chunk rows are exactly the chunker output of the
\* new content, in order, each with a fresh embedding id that is live.
C1_UpdateReplacesChunks ==
    (/\ F.op = "update" /\ F.pc = "done" /\ F.resp.status = 200
     /\ F.content # None
     /\ Get(F.content) # F.pre.documents[F.document_id].content) =>
        LET d == F.document_id
        IN /\ \A c \in PriorChunks(d) :
                /\ \A x \in document_chunks : x.id # c.id
                /\ c.embedding_id # NULL => get_embedding(c.embedding_id) = None
           /\ RowsMatch(d, Chunker(Get(F.content)))
           /\ \A x \in ChunksOf(d) :
                /\ x.embedding_id \notin 1..F.pre.uuid_seq
                /\ \A y \in ChunksOf(d) : y.embedding_id = x.embedding_id => y = x

\* C1 witness: a content-changing PUT has succeeded on a document that had
\* chunk rows and has chunk rows now
C1_Witness ==
    /\ F.op = "update" /\ F.pc = "done" /\ F.resp.status = 200
    /\ F.content # None
    /\ Get(F.content) # F.pre.documents[F.document_id].content
    /\ PriorChunks(F.document_id) # {}
    /\ ChunksOf(F.document_id) # {}

\* C2: after a successful POST with (title, content) by user u exactly one new
\* Document row exists, with owner u, the given title and content, a non-null
\* processed_at and a mock_system_id under which the external store returns
\* that content; its chunk rows are exactly chunk_text(content), the i-th with
\* chunk_order i and a non-null embedding id present in the embedding store.
C2_CreatePersists ==
    (F.op = "create" /\ F.pc = "done" /\ F.resp.status = 201) =>
        LET created == (DOMAIN documents) \ (DOMAIN F.pre.documents)
        IN /\ Cardinality(created) = 1
           /\ \A d \in created :
                /\ documents[d].owner_id = F.user
                /\ documents[d].title = Get(F.title)
                /\ documents[d].content = Get(F.content)
                /\ documents[d].processed_at # NULL
                /\ get_document_content(documents[d].mock_system_id) = F.content
                /\ RowsMatch(d, Chunker(Get(F.content)))

\* C2 witness: a POST has succeeded for a content of more than one chunk
C2_Witness ==
    /\ F.op = "create" /\ F.pc = "done" /\ F.resp.status = 201
    /\ Len(Chunker(Get(F.content))) >= 2
    /\ F.pre.documents # documents

\* C3: after a successful DELETE by the owner (204) the document row is gone,
\* no chunk row with that document_id remains, every embedding id the
\* document's chunks referenced is absent from the embedding store, and the
\* external store has no entry under the document's mock_system_id.
C3_DeleteRemovesAll ==
    (F.op = "delete" /\ F.pc = "done" /\ F.resp.status = 204) =>
        LET d == F.document_id
        IN /\ d \notin DOMAIN documents
           /\ ChunksOf(d) = {}
           /\ \A c \in PriorChunks(d) :
                c.embedding_id # NULL => get_embedding(c.embedding_id) = None
           /\ get_document_content(F.pre.documents[d].mock_system_id) = None

\* C3 witness: a DELETE has succeeded on a document that had chunk rows
C3_Witness ==
    /\ F.op = "delete" /\ F.pc = "done" /\ F.resp.status = 204
    /\ PriorChunks(F.document_id) # {}

\* the request names a document that does not exist
NamesAbsent == F.document_id \notin DOMAIN F.pre.documents

\* the request names a document owned by another user
NamesForeign ==
    /\ F.document_id \in DOMAIN F.pre.documents
    /\ F.pre.documents[F.document_id].owner_id # F.user

UpdatesBoth ==
    /\ F.op = "update" /\ F.db_document # None
    /\ F.title # None
    /\ Get(F.title) # F.pre.documents[F.document_id].title
    /\ F.content # None
    /\ Get(F.content) # F.pre.documents[F.document_id].content

\* the committed row and chunk rows are those found by the request
AllOld ==
    /\ documents = F.pre.documents
    /\ document_chunks = F.pre.document_chunks

\* the committed row and chunk rows are those the request asked for
AllNew ==
    /\ documents[F.document_id].title = Get(F.title)
    /\ documents[F.document_id].content = Get(F.content)
    /\ PriorChunks(F.document_id) \cap document_chunks = {}
    /\ RowsMatch(F.document_id, Chunker(Get(F.content)))

TitleOnlyOrSame ==
    /\ F.op = "update" /\ F.db_document # None
    /\ \/ F.content = None
       \/ Get(F.content) = F.pre.documents[F.document_id].content

\* C7: a PUT by the owner that supplies only a title, or content equal to the
\* stored content, leaves the content, the chunk rows and the whole embedding
\* store unchanged and performs no chunking and no embedding-store call; only
\* the title may change.
C7_TitleOnlyKeepsChunks ==
    TitleOnlyOrSame =>
        /\ F.pc \in {"commit", "refresh", "done"}
        /\ F.chunks = <<>> /\ F.added = <<>> /\ F.deleted = {}
        /\ [documents EXCEPT ![F.document_id].title =
                                 F.pre.documents[F.document_id].title]
              = F.pre.documents
        /\ document_chunks = F.pre.document_chunks
        /\ embeddings = F.pre.embeddings
        /\ uuid_seq = F.pre.uuid_seq

\* C7 witness: a PUT with a new title and the stored content has succeeded on
\* a document that has chunk rows, and the title has changed
C7_Witness ==
    /\ TitleOnlyOrSame
    /\ F.pc = "done" /\ F.resp.status = 200
    /\ F.content # None
    /\ documents[F.document_id].title # F.pre.documents[F.document_id].title
    /\ PriorChunks(F.document_id) # {}

\* C8: if a step of delete_document after the ownership lookup raises, the
\* transaction is rolled back (the document row and all its chunk rows are
\* still present), DatabaseOperationException (500) is returned, and the
\* external-store entry and the embeddings the request had already deleted
\* stay deleted.
C8_DeleteFailureRollsBack ==
    (F.op = "delete" /\ F.pc = "done" /\ F.failed_at # "") =>
        /\ F.resp.exc = "DatabaseOperationException"
        /\ F.resp.status = 500
        /\ documents = F.pre.documents
        /\ document_chunks = F.pre.document_chunks
        /\ F.failed_at \in {"del_emb", "commit"} =>
              get_document_content(Get(F.db_document).mock_system_id) = None
        /\ \A k \in 1..F.i :
              F.loaded[k].embedding_id # NULL =>
                  get_embedding(F.loaded[k].embedding_id) = None

\* C8 witness: a DELETE has failed after the external entry and at least one
\* embedding were deleted
C8_Witness ==
    /\ F.op = "delete" /\ F.pc = "done"
    /\ F.failed_at \in {"del_emb", "commit"}
    /\ F.i >= 1

(***************************************************************************)
(* Documents created and deleted without faults, with contents around the  *)
(* chunk size                                                              *)
(***************************************************************************)
\* most documents created in one run of SpecShelf
MaxShelfDocs == 3
\* most uuid4() values drawn in one run of SpecShelf
MaxShelfUuids == 9

\* the title the requests of SpecShelf carry
ShelfTitles == {"t1"}
\* contents of 1, chunk_size - overlap, chunk_size - overlap + 1 and
\* chunk_size characters
ShelfContents ==
    {MkText(1, 0),
     MkText(DefaultChunkSize - DefaultOverlap, 0),
     MkText(DefaultChunkSize - DefaultOverlap + 1, 0),
     MkText(DefaultChunkSize, 0)}

ShelfCreateUpload(r) ==
    CreateUploadOf(r, ShelfTitles, ShelfContents, MaxShelfDocs, MaxShelfUuids)

NextShelf ==
    \E r \in Slots :
        \/ Return(r)
        \/ ShelfCreateUpload(r) \/ CreateFlush(r) \/ CreateChunk(r) \/ CreateEmbed(r)
        \/ CreateCommit(r) \/ CreateRefresh(r)
        \/ DeleteLoad(r) \/ DeleteExternal(r) \/ DeleteEmbedding(r) \/ DeleteCommit(r)
        \/ ListDocuments(r)

SpecShelf == Init /\ [][NextShelf]_vars

\* the document rows the request has created
Created == (DOMAIN documents) \ (DOMAIN F.pre.documents)

\* a POST has succeeded
CreateDone == F.op = "create" /\ F.pc = "done" /\ F.resp.status = 201

\* the created document has exactly one chunk row and it holds the full content
OneFullChunk ==
    /\ Created # {}
    /\ \A d \in Created :
          /\ Cardinality(ChunksOf(d)) = 1
          /\ \A c \in ChunksOf(d) : c.chunk_text = Get(F.content)

\* C11 (as stated): for every non-empty content of length at most chunk_size
\* (500, overlap 50) creating a document yields exactly one chunk, equal to
\* the full content.
C11_OneChunkUpToSize ==
    (/\ CreateDone
     /\ Get(F.content) # <<>>
     /\ Len(Get(F.content)) <= DefaultChunkSize) => OneFullChunk

\* C11 (amended): for every non-empty content of length at most
\* chunk_size - overlap (450) creating a document yields exactly one chunk,
\* equal to the full content.
C11_OneChunkUpToStep ==
    (/\ CreateDone
     /\ Get(F.content) # <<>>
     /\ Len(Get(F.content)) <= DefaultChunkSize - DefaultOverlap) => OneFullChunk

\* C11 witness: a POST with a content of exactly chunk_size - overlap
\* characters has succeeded and the document row exists
C11_Witness ==
    /\ CreateDone
    /\ Len(Get(F.content)) = DefaultChunkSize - DefaultOverlap
    /\ Created # {}

(***************************************************************************)
(* Invariants of the committed tables                                      *)
(***************************************************************************)
\* C12: in every committed state reached through create, update and delete
\* requests, successful or failed, the chunk_order values of each document's
\* chunk rows are pairwise distinct and form exactly 0..N-1, and the row with
\* chunk_order i holds the i-th chunker output of the document's content.
C12_OrdersDense ==
    \A d \in DOMAIN documents :
        LET rows == ChunksOf(d)
            chunks == Chunker(documents[d].content)
        IN /\ \A x, y \in rows : x.chunk_order = y.chunk_order => x = y
           /\ {x.chunk_order : x \in rows} = 0..(Cardinality(rows) - 1)
           /\ Cardinality(rows) = Len(chunks)
           /\ \A x \in rows : x.chunk_text = chunks[x.chunk_order + 1]

\* C12 witness: a content-changing PUT on a document with chunk rows has
\* failed during reprocessing and the document still has chunk rows
C12_Witness ==
    /\ F.op = "update" /\ F.pc = "done"
    /\ F.update_content
    /\ F.failed_at \in {"del_old", "flush", "chunk", "embed"}
    /\ ChunksOf(F.document_id) # {}

\* `text` occurs in `content` at offset s
OccursAt(text, content, s) ==
    /\ s + Len(text) <= Len(content)
    /\ \A k \in 1..Len(text) : content[s + k] = text[k]

\* `text` is a contiguous substring of `content`
IsSubstring(text, content) ==
    \E s \in 0..Len(content) : OccursAt(text, content, s)

\* C13: in every committed state reached through create, update and delete
\* requests each chunk row's chunk_text is a contiguous substring of the
\* current content of the document it belongs to.
C13_ChunkIsSubstring ==
    \A c \in document_chunks :
        /\ c.document_id \in DOMAIN documents
        /\ IsSubstring(c.chunk_text, documents[c.document_id].content)

\* C13 witness: a content-changing PUT has succeeded and the document has a
\* chunk row of the new content
C13_Witness ==
    /\ F.op = "update" /\ F.pc = "done" /\ F.resp.status = 200
    /\ F.update_content
    /\ \E c \in ChunksOf(F.document_id) : c.chunk_text = Get(F.content)

\* the embedding ids held by committed chunk rows and by the chunk objects
\* pending in the session
HeldEmbeddingIds ==
    {c.embedding_id : c \in document_chunks}
        \cup {F.added[k].embedding_id : k \in 1..Len(F.added)}

C16_ChunksListed ==
    /\ (F.op = "get_chunks" /\ F.pc = "chunks") =>
          /\ F.db_document # None
          /\ Get(F.db_document).id = F.document_id
          /\ Get(F.db_document).owner_id = F.user
          /\ F.resp = NoResponse
    /\ (F.op = "get_chunks" /\ F.pc = "done" /\ F.resp.status = 200) =>
          LET body == F.resp.body
          IN /\ documents[F.document_id].owner_id = F.user
             /\ {body[k] : k \in 1..Len(body)} = ChunksOf(F.document_id)
             /\ Len(body) = Cardinality(ChunksOf(F.document_id))
             /\ \A k \in 1..Len(body) : body[k].chunk_order = k - 1
             /\ \A j, k \in 1..Len(body) :
                   j < k => body[j].chunk_order < body[k].chunk_order

\* C16 witness: the owner has been returned the two chunk rows of a document
C16_Witness ==
    /\ F.op = "get_chunks" /\ F.pc = "done" /\ F.resp.status = 200
    /\ Len(F.resp.body) >= 2

C20_ListScopedNewestFirst ==
    (F.op = "list" /\ F.pc = "done") =>
        LET body == F.resp.body
            owned == {d \in DOMAIN documents : documents[d].owner_id = F.user}
        IN /\ F.resp.status = 200
           /\ {body[k].id : k \in 1..Len(body)} = owned
           /\ Len(body) = Cardinality(owned)
           /\ \A k \in 1..Len(body) :
                 /\ body[k].owner_id = F.user
                 /\ body[k] = DocObject(body[k].id)
           /\ \A j, k \in 1..Len(body) :
                 j < k => body[j].created_at > body[k].created_at
           /\ Snapshot = F.pre

\* C20 witness: the caller has been listed two documents while a document of
\* another user exists
C20_Witness ==
    /\ F.op = "list" /\ F.pc = "done"
    /\ Len(F.resp.body) = 2
    /\ \E d \in DOMAIN documents : documents[d].owner_id # F.user

(***************************************************************************)
(* register_user and login_for_access_token (app/api/auth.py)              *)
(***************************************************************************)
AuthFrame(op, pc, email, password) ==
    [IdleAuth EXCEPT !.op = op, !.pc = pc, !.email = email,
                     !.password = password, !.pre = users, !.last = auth.last]

\* the unique index on users.email rejects the INSERT
EmailTaken(email) == \E id \in DOMAIN users : users[id].email = email

\* POST /auth/register: the request arrives and the handler checks whether a
\* user with the email exists (lines 24-29)
RegisterCheck ==
    \E e \in Emails, p \in Passwords :
        LET f == AuthFrame("register", "commit", e, p)
        IN /\ auth.op = "idle"
           /\ auth' = IF SelectUserByEmail(e) # None
                      THEN [f EXCEPT !.pc = "done", !.case = "exists",
                                     !.resp = Response(400, "HTTPException",
                                                       "Email already registered",
                                                       None)]
                      ELSE f
           /\ UNCHANGED <<ck, stores, faults, req, users, user_id_seq>>

\* get_password_hash, User(...), db.add, db.commit (lines 32-37); an INSERT
\* the unique index rejects leaves the route as an unhandled exception, which
\* get_db turns into a database-operation error (database.py lines 36-38)
RegisterCommit ==
    LET id == user_id_seq + 1
        new_user == [email |-> auth.email,
                     hashed_password |-> get_password_hash(auth.password),
                     is_active |-> TRUE]
    IN /\ auth.op = "register" /\ auth.pc = "commit"
       /\ user_id_seq' = id
       /\ IF EmailTaken(auth.email)
          THEN /\ users' = users
               /\ auth' = [auth EXCEPT !.pc = "done", !.case = "integrity",
                                       !.resp = DatabaseOperationException(
                                                    "Database error")]
          ELSE /\ users' = users @@ (id :> new_user)
               /\ auth' = [auth EXCEPT !.pc = "refresh"]
       /\ UNCHANGED <<ck, stores, faults, req>>

\* db.refresh(new_user); return new_user as UserOut (lines 38-41)
RegisterRefresh ==
    LET new_user == UserObject(user_id_seq)
    IN /\ auth.op = "register" /\ auth.pc = "refresh"
       /\ auth' = [auth EXCEPT
                     !.pc = "done", !.case = "created",
                     !.resp = Response(201, "", "",
                                       Some([id |-> new_user.id,
                                             email |-> new_user.email,
                                             is_active |-> new_user.is_active]))]
       /\ UNCHANGED <<ck, stores, faults, req, users, user_id_seq>>

\* the branch login_for_access_token takes (line 55)
LoginCase(user, password) ==
    IF user = None THEN "unknown_email"
    ELSE IF ~verify_password(password, Get(user).hashed_password)
         THEN "wrong_password"
         ELSE "ok"

\* the error of a failed login, mutated to tell an unknown email apart
LoginErrorDistinct(case) ==
    IF case = "unknown_email" THEN UserNotFoundException
    ELSE InvalidCredentialsException

\* raise InvalidCredentialsException() (line 56)
LoginError(case) == InvalidCredentialsException

\* POST /auth/token (lines 52-61)
Login ==
    \E e \in Emails, p \in Passwords :
        LET f == AuthFrame("login", "done", e, p)
            user == SelectUserByEmail(e)
            case == LoginCase(user, p)
            access_token == create_access_token([sub |-> Get(user).email,
                                                 id |-> Get(user).id])
        IN /\ auth.op = "idle"
           /\ auth' = [f EXCEPT
                         !.case = case,
                         !.resp = IF case = "ok"
                                  THEN Response(200, "", "",
                                                Some([access_token |-> access_token,
                                                      token_type |-> "bearer"]))
                                  ELSE LoginError(case)]
           /\ UNCHANGED <<ck, stores, faults, req, users, user_id_seq>>

\* the response has been sent; the kind and response of the request are kept
AuthReturn ==
    /\ auth.pc = "done"
    /\ auth' = [IdleAuth EXCEPT !.last = [case |-> auth.case, resp |-> auth.resp]]
    /\ UNCHANGED <<ck, stores, faults, req, users, user_id_seq>>

\* the /auth routes start on an empty table users
InitAuth ==
    /\ ck = CkIdle
    /\ InitStores
    /\ users = <<>>
    /\ user_id_seq = 0
    /\ auth = IdleAuth

NextAuth == RegisterCheck \/ RegisterCommit \/ RegisterRefresh \/ Login \/ AuthReturn

SpecAuth == InitAuth /\ [][NextAuth]_vars

(***************************************************************************)
(* Properties of the /auth routes                                          *)
(***************************************************************************)
\* the users that had the email of the request when it arrived
PriorUsersWithEmail == {id \in DOMAIN auth.pre : auth.pre[id].email = auth.email}

UnknownEmail == PriorUsersWithEmail = {}

\* the login names a registered email with a password that does not verify
WrongPassword ==
    \E id \in PriorUsersWithEmail :
        ~verify_password(auth.password, auth.pre[id].hashed_password)

SpecChunkFair == InitChunk /\ [][NextChunk]_vars /\ WF_vars(NextChunk)

\* the arguments of the run satisfy 0 <= overlap < chunk_size
ChunkArgsValid == 0 <= ck.overlap /\ ck.overlap < ck.chunk_size

\* C23: for every text and every chunk_size, overlap with
\* 0 <= overlap < chunk_size, chunk_text terminates: each iteration increases
\* start by exactly chunk_size - overlap (a positive amount), the loop makes
\* at most len(text) iterations, and the call returns with start >= len(text).
C23_Terminates ==
    /\ [][(ChunkStep /\ ChunkArgsValid) =>
            /\ ck'.start = ck.start + ck.chunk_size - ck.overlap
            /\ ck'.start > ck.start]_vars
    /\ [](ChunkArgsValid =>
            /\ Len(ck.chunks) <= Len(ck.text)
            /\ Len(ck.chunks) < MaxIter
            /\ (ck.pc = "done" /\ ck.text # <<>> => ck.start >= Len(ck.text)))
    /\ (ChunkArgsValid => <>(ck.pc = "done"))

\* C23 witness: a run with 0 < overlap < chunk_size has returned after at
\* least three iterations, with start at or past the end of the text
C23_Witness ==
    /\ ChunkArgsValid
    /\ ck.pc = "done"
    /\ ck.overlap > 0
    /\ Len(ck.chunks) >= 3
    /\ ck.start >= Len(ck.text)
    /\ ck.start = Len(ck.chunks) * (ck.chunk_size - ck.overlap)

\* C24 (as stated): chunk_text terminates on every non-empty text also when
\* overlap >= chunk_size: no iteration leaves start where it was (a loop whose
\* test sees the same start and text again never exits), and every started
\* call returns.
C24_TerminatesAlways ==
    /\ [][ChunkStep => ck'.start > ck.start]_vars
    /\ (ck.text # <<>> => <>(ck.pc = "done"))

(***************************************************************************)
(* MockVectorStore as a map                                                *)
(***************************************************************************)
\* MockVectorStore.delete_embedding: the value returned
\* (`if embedding_id in self._embeddings: ... return True`, else False)
delete_embedding_returns(store, embedding_id) == embedding_id \in DOMAIN store

\* MockVectorStore.get_embedding on a given content of _embeddings
get_embedding_from(store, embedding_id) ==
    IF embedding_id \in DOMAIN store THEN Some(store[embedding_id]) ELSE None

\* every id uuid4 has handed out so far, and the next one
KnownIds == 1..(uuid_seq + 1)

\* C30: in the embedding store, delete_embedding(id) returns true exactly when
\* id was live and then removes only that id; afterwards get_embedding(id)
\* returns not-found and a second delete_embedding(id) returns false and
\* changes nothing; get_embedding(id) returns the stored vector for every id
\* added and not yet deleted (the ids of the chunks a running request has
\* added), and not-found for the ids a running request has deleted.
C30_StoreAlgebra ==
    /\ \A id \in KnownIds :
          LET s == embeddings
              ret == delete_embedding_returns(s, id)
              d == delete_embedding(s, id)
          IN /\ ret = (id \in DOMAIN s)
             /\ DOMAIN d = (DOMAIN s) \ {id}
             /\ \A k \in DOMAIN d : d[k] = s[k]
             /\ (~ret => d = s)
             /\ get_embedding_from(d, id) = None
             /\ delete_embedding_returns(d, id) = FALSE
             /\ delete_embedding(d, id) = d
             /\ (id \in DOMAIN s => get_embedding(id) = Some(s[id]))
             /\ (id \notin DOMAIN s => get_embedding(id) = None)
             /\ get_embedding(id) = get_embedding_from(s, id)
    /\ \A r \in DOMAIN req :
          LET f == req[r]
          IN /\ \A k \in 1..Len(f.added) :
                   get_embedding(f.added[k].embedding_id)
                       = Some(generate_mock_embedding(f.added[k].chunk_text))
             /\ (f.pc \in {"del_old", "del_emb"} =>
                   \A k \in 1..f.i :
                       /\ get_embedding(f.loaded[k].embedding_id) = None
                       /\ ~delete_embedding_returns(embeddings,
                                                    f.loaded[k].embedding_id))

\* C30 witness: a delete request has removed the embedding of the first of
\* two chunks; that id is not found, a second delete of it would return
\* false, and the embedding of the second chunk is still returned
C30_Witness ==
    \E r \in DOMAIN req :
        LET f == req[r]
        IN /\ f.op = "delete" /\ f.pc = "del_emb" /\ f.i = 1
           /\ Len(f.loaded) = 2
           /\ f.loaded[1].embedding_id \in DOMAIN f.pre.embeddings
           /\ get_embedding(f.loaded[1].embedding_id) = None
           /\ ~delete_embedding_returns(embeddings, f.loaded[1].embedding_id)
           /\ get_embedding(f.loaded[2].embedding_id) # None
           /\ delete_embedding_returns(embeddings, f.loaded[2].embedding_id)

(***************************************************************************)
(* Failures after effects on the mock services                             *)
(***************************************************************************)
\* the request has ended in the except branch of update_document
UpdateFailed ==
    /\ F.op = "update" /\ F.pc = "done"
    /\ F.failed_at \in {"del_old", "flush", "chunk", "embed"}

\* the old chunks whose embedding the failed request had already deleted
StaleChunks ==
    {k \in 1..Len(F.loaded) :
        /\ F.loaded[k].embedding_id \in DOMAIN F.pre.embeddings
        /\ F.loaded[k].embedding_id \notin DOMAIN embeddings}

Uploaded ==
    F.mock_system_id :> [title |-> Get(F.title), content |-> Get(F.content),
                         mock_system_id |-> F.mock_system_id]

\* the document rows that hold the mock_system_id of the request
Referencing == {d \in DOMAIN documents : documents[d].mock_system_id = F.mock_system_id}

\* the uploaded entry is still in the external store, nothing else in that
\* store has changed, and no Document row references its id
Orphaned ==
    /\ ext_documents = F.pre.ext_documents @@ Uploaded
    /\ F.mock_system_id \notin DOMAIN F.pre.ext_documents
    /\ get_document_content(F.mock_system_id) = F.content
    /\ Referencing = {}
    /\ documents = F.pre.documents
    /\ document_chunks = F.pre.document_chunks

MaxLedgerDocs == 2
\* most uuid4() values drawn in one run of SpecLedger
MaxLedgerUuids == 5

\* the title the POST requests of SpecLedger carry
LedgerTitles == {"t1"}
\* the title the PUT requests of SpecLedger carry
LedgerNewTitles == {"t2"}
\* the content the POST requests of SpecLedger carry (one chunk)
LedgerContents == {MkText(3, 0)}
\* the content the PUT requests of SpecLedger carry (one chunk)
LedgerNewContents == {MkText(3, 1)}
\* document ids a request of SpecLedger may name
LedgerDocIds == 1..MaxLedgerDocs

LedgerCreateUpload(r) ==
    CreateUploadOf(r, LedgerTitles, LedgerContents, MaxLedgerDocs, MaxLedgerUuids)

LedgerUpdateLoad(r) ==
    UpdateLoadOf(r, LedgerDocIds, LedgerNewTitles, LedgerNewContents, MaxLedgerUuids)

LedgerDeleteLoad(r) == DeleteLoadOf(r, LedgerDocIds)

NextLedger ==
    \E r \in Slots :
        \/ Return(r)
        \/ LedgerCreateUpload(r) \/ CreateFlush(r) \/ CreateChunk(r) \/ CreateEmbed(r)
        \/ CreateCommit(r) \/ CreateRefresh(r) \/ CreateFail(r)
        \/ LedgerUpdateLoad(r) \/ UpdateDeleteOld(r) \/ UpdateFlush(r)
        \/ UpdateChunk(r) \/ UpdateEmbed(r) \/ UpdateCommit(r) \/ UpdateRefresh(r)
        \/ UpdateFail(r) \/ UpdateUnhandled(r)
        \/ LedgerDeleteLoad(r) \/ DeleteExternal(r) \/ DeleteEmbedding(r)
        \/ DeleteCommit(r) \/ DeleteFail(r)

SpecLedger == Init /\ [][NextLedger]_vars

\* the external reference id of document row d
MockIdOf(d) == documents[d].mock_system_id

\* C22: a document's external reference id (mock_system_id) is assigned
\* exactly once, by create, and is never changed by any later update (title,
\* content or both, successful or failed); no two documents ever hold the same
\* id, and an id released by delete is never assigned to a later document:
\* every id a document holds or has held is one of the uuid4 values drawn so
\* far, and a created document holds the value drawn by its own request, which
\* is later than every value drawn before the request arrived.
C22_ExternalIdStable ==
    /\ \A d1, d2 \in DOMAIN documents : d1 # d2 => MockIdOf(d1) # MockIdOf(d2)
    /\ \A d \in DOMAIN documents : MockIdOf(d) \in 1..uuid_seq
    /\ F.op # "idle" =>
          \A d \in DOMAIN documents :
              IF d \in DOMAIN F.pre.documents
              THEN MockIdOf(d) = F.pre.documents[d].mock_system_id
              ELSE /\ F.op = "create"
                   /\ MockIdOf(d) = F.mock_system_id
                   /\ MockIdOf(d) > F.pre.uuid_seq
                   /\ \A x \in DOMAIN F.pre.documents :
                         F.pre.documents[x].mock_system_id # MockIdOf(d)
    /\ (F.op = "update" /\ F.db_document # None) =>
          Get(F.db_document).mock_system_id
              = F.pre.documents[F.document_id].mock_system_id

\* C22 witness: a PUT that changed title and content of document 2 has
\* succeeded after document 1 was deleted; document 2 still holds the id its
\* create drew, which is not the id document 1 held
C22_Witness ==
    /\ F.op = "update" /\ F.pc = "done" /\ F.resp.status = 200
    /\ F.document_id = 2
    /\ F.title # None /\ F.update_content
    /\ 1 \notin DOMAIN documents
    /\ MockIdOf(2) = F.pre.documents[2].mock_system_id
    /\ MockIdOf(2) = 3
    /\ 1 \notin DOMAIN ext_documents

(***************************************************************************)
(* Protected routes: oauth2_scheme, get_db, get_current_user,              *)
(* get_current_active_user, then the route                                 *)
(***************************************************************************)
\* the routes that depend on get_current_active_user: GET /users/me,
\* GET /documents/ and GET /documents/{document_id}
ProtectedRoutes == {"users_me", "documents_list", "documents_get"}

\* a bearer token that jwt.decode rejects (malformed, expired, wrong key)
BadToken == [garbage |-> TRUE]

\* the Authorization header of a request: absent, a bearer token that fails
\* validation, a valid token without an id, and valid tokens of the two
\* registered users and of a user id that table users does not hold
BearerTokens ==
    {None, Some(BadToken), Some(create_access_token([sub |-> "a@example.com"]))}
    \cup {Some(create_access_token([sub |-> "a@example.com", id |-> i])) :
             i \in UserIds \cup {Cardinality(UserIds) + 1}}

\* OAuth2PasswordBearer with auto_error: a request without a bearer token is
\* answered 401 'Not authenticated' before any other dependency runs
NotAuthenticated ==
    [headers |-> [WWW_Authenticate |-> "Bearer"]]
        @@ Response(401, "HTTPException", "Not authenticated", None)

\* HTTPException(400, 'Inactive user') of get_current_active_user
InactiveUser == Response(400, "HTTPException", "Inactive user", None)

\* an exception that is no HTTPException (a failing db.execute)
UnhandledError == Response(500, "Exception", "", None)

\* decode_access_token: the payload, or None when jwt.decode raises JWTError
decode_access_token(token) ==
    IF "jwt" \in DOMAIN token THEN Some(token.jwt) ELSE None

\* payload.get("id")
PayloadId(payload) == IF "id" \in DOMAIN payload THEN Some(payload.id) ELSE None

\* select(User).where(User.id == token_data.id): scalar_one_or_none
SelectUserById(id) == IF id \in DOMAIN users THEN Some(UserObject(id)) ELSE None

\* the branch get_current_user and get_current_active_user take for a token
GuardCase(token) ==
    LET payload == decode_access_token(token)
        user_id == PayloadId(Get(payload))
        user == SelectUserById(Get(user_id))
    IN IF payload = None THEN "bad_token"
       ELSE IF user_id = None THEN "no_id"
       ELSE IF user = None THEN "no_user"
       ELSE IF ~Get(user).is_active THEN "inactive"
       ELSE "ok"

\* the exception of a failed credential check, mutated to the not-found error
GuardErrorNotFound(case) ==
    IF case = "inactive" THEN InactiveUser ELSE UserNotFoundException

\* the exception get_current_user raises (security.py lines 69, 83, 91) or
\* get_current_active_user raises (lines 103-105)
GuardError(case) ==
    IF case = "inactive" THEN InactiveUser ELSE InvalidCredentialsException

\* what the stores and table users held when the request arrived
GuardSnapshot == [users |-> users] @@ Snapshot

\* the frame of a request to a protected route
IdleGuard ==
    [op |-> "idle", pc |-> "idle",
     token |-> None,            \* the bearer token of the request
     document_id |-> 0,         \* path parameter of documents_get
     case |-> "",               \* which branch the dependencies took
     current_user |-> None,     \* the User the dependencies returned
     raised |-> NoResponse,     \* the exception that left dependency or route
     thrown |-> FALSE,          \* get_db: the exception arrived at the yield
     session |-> "none",        \* get_db: db not created / open / closed
     closes |-> 0,              \* get_db: number of db.close() calls
     rolled_back |-> FALSE,     \* get_db: db.rollback() was called
     resp |-> NoResponse,
     pre |-> [users |-> <<>>] @@ NoSnapshot]

\* the request arrives and oauth2_scheme reads the Authorization header
\* (security.py lines 21, 73)
GuardArrive ==
    \E route \in ProtectedRoutes, t \in BearerTokens, d \in DocIds :
        LET f == [IdleGuard EXCEPT !.op = route, !.token = t,
                                   !.document_id =
                                       IF route = "documents_get" THEN d ELSE 0,
                                   !.pre = GuardSnapshot]
        IN /\ auth.op = "idle"
           /\ (route # "documents_get" => d = 1)
           /\ auth' = IF t = None
                      THEN [f EXCEPT !.pc = "done", !.case = "no_token",
                                     !.raised = NotAuthenticated,
                                     !.resp = NotAuthenticated]
                      ELSE [f EXCEPT !.pc = "get_db"]
           /\ UNCHANGED <<ck, stores, faults, req, users, user_id_seq>>

\* get_db up to the yield: db = AsyncSessionLocal() (database.py lines 33-35)
GuardGetDb ==
    /\ auth.op \in ProtectedRoutes /\ auth.pc = "get_db"
    /\ auth' = [auth EXCEPT !.session = "open", !.pc = "current_user"]
    /\ UNCHANGED <<ck, stores, faults, req, users, user_id_seq>>

\* get_current_user (security.py lines 78-92) and get_current_active_user
\* (lines 102-106)
GuardCurrentUser ==
    LET case == GuardCase(Get(auth.token))
        user == SelectUserById(Get(PayloadId(Get(decode_access_token(Get(auth.token))))))
    IN /\ auth.op \in ProtectedRoutes /\ auth.pc = "current_user"
       /\ auth' = IF case = "ok"
                  THEN [auth EXCEPT !.case = case, !.current_user = user,
                                    !.pc = "route"]
                  ELSE [auth EXCEPT !.case = case, !.raised = GuardError(case),
                                    !.pc = "exc"]
       /\ UNCHANGED <<ck, stores, faults, req, users, user_id_seq>>

\* the body of the route: read_users_me (users.py lines 16-17), list_documents
\* (documents.py lines 100-107), get_document (lines 120-129)
GuardRoute ==
    LET user == Get(auth.current_user)
        found == SelectOwned(auth.document_id, user.id)
        body == IF auth.op = "users_me"
                THEN Some([id |-> user.id, email |-> user.email,
                           is_active |-> user.is_active])
                ELSE IF auth.op = "documents_list"
                THEN Some(OrderByCreatedDesc(DocumentsOf(user.id)))
                ELSE found
    IN /\ auth.op \in ProtectedRoutes /\ auth.pc = "route"
       /\ auth' = IF body = None
                  THEN [auth EXCEPT !.case = "not_found",
                                    !.raised = DocumentNotFoundException,
                                    !.pc = "exc"]
                  ELSE [auth EXCEPT !.resp = Response(200, "", "", body),
                                    !.pc = "exit"]
       /\ UNCHANGED <<ck, stores, faults, req, users, user_id_seq>>

\* db.execute of a documents route raises: no try block is around it
\* (documents.py lines 100-104, 120-125)
GuardRouteFail ==
    /\ auth.op \in {"documents_list", "documents_get"} /\ auth.pc = "route"
    /\ faults < MaxFaults
    /\ faults' = faults + 1
    /\ auth' = [auth EXCEPT !.case = "unhandled", !.raised = UnhandledError,
                            !.pc = "exc"]
    /\ UNCHANGED <<ck, stores, req, users, user_id_seq>>

\* get_db after the yield, no exception: finally: db.close()
\* (database.py lines 39-40)
GuardDbClose ==
    /\ auth.op \in ProtectedRoutes /\ auth.pc = "exit"
    /\ auth' = [auth EXCEPT !.session = "closed", !.closes = @ + 1,
                            !.pc = "done"]
    /\ UNCHANGED <<ck, stores, faults, req, users, user_id_seq>>

\* get_db with the except branch mutated to return without the finally clause
GuardDbExceptNoClose ==
    /\ auth.op \in ProtectedRoutes /\ auth.pc = "exc"
    /\ auth' = [auth EXCEPT !.thrown = TRUE, !.rolled_back = TRUE,
                            !.resp = DatabaseOperationException("Database error"),
                            !.pc = "done"]
    /\ UNCHANGED <<ck, stores, faults, req, users, user_id_seq>>

\* get_db, the exception arrives at the yield: except Exception: db.rollback(),
\* raise DatabaseOperationException; finally: db.close() (database.py 36-40)
GuardDbExcept ==
    /\ auth.op \in ProtectedRoutes /\ auth.pc = "exc"
    /\ auth' = [auth EXCEPT !.thrown = TRUE, !.rolled_back = TRUE,
                            !.session = "closed", !.closes = @ + 1,
                            !.resp = DatabaseOperationException("Database error"),
                            !.pc = "done"]
    /\ UNCHANGED <<ck, stores, faults, req, users, user_id_seq>>

\* get_db, an HTTPException of a dependency or route is answered by the
\* exception handler and the generator is finished without it: finally:
\* db.close(). Whether an HTTPException reaches the yield (GuardDbExcept) or
\* not depends on the FastAPI release, which the repository does not pin.
GuardDbFinally ==
    /\ auth.op \in ProtectedRoutes /\ auth.pc = "exc"
    /\ auth.raised.exc # UnhandledError.exc
    /\ auth' = [auth EXCEPT !.session = "closed", !.closes = @ + 1,
                            !.resp = auth.raised, !.pc = "done"]
    /\ UNCHANGED <<ck, stores, faults, req, users, user_id_seq>>

\* the response has been sent
GuardReturn ==
    /\ auth.op \in ProtectedRoutes /\ auth.pc = "done"
    /\ auth' = IdleGuard
    /\ UNCHANGED <<ck, stores, faults, req, users, user_id_seq>>

\* documents are created while protected routes are called
GuardCreateUpload(r) ==
    CreateUploadOf(r, LedgerTitles, LedgerContents, MaxDocs, MaxUuids)

InitGuard ==
    /\ ck = CkIdle
    /\ InitStores
    /\ users = RegisteredUsers
    /\ user_id_seq = Cardinality(UserIds)
    /\ auth = IdleGuard

NextGuard ==
    \/ GuardArrive \/ GuardGetDb \/ GuardCurrentUser \/ GuardRoute
    \/ GuardRouteFail \/ GuardDbClose \/ GuardDbExcept \/ GuardDbFinally
    \/ GuardReturn
    \/ \E r \in Slots :
          \/ Return(r)
          \/ GuardCreateUpload(r) \/ CreateFlush(r) \/ CreateChunk(r)
          \/ CreateEmbed(r) \/ CreateCommit(r) \/ CreateRefresh(r)

SpecGuard == InitGuard /\ [][NextGuard]_vars

(***************************************************************************)
(* Properties of the protected routes                                      *)
(***************************************************************************)
\* the request was refused for its credentials
GuardRefused == auth.case \in {"no_token", "bad_token", "no_id", "no_user"}

\* C21 (as stated): every protected endpoint called with no bearer token, with
\* a token that fails validation, with a token lacking a user id, or with a
\* token whose user no longer exists returns 401 with detail 'Could not
\* validate credentials', returns no user or document data, and no step of
\* such a request modifies user or document data.
C21_Unauthorized401 ==
    /\ []((auth.pc = "done" /\ GuardRefused) =>
             /\ auth.resp.status = 401
             /\ auth.resp.detail = "Could not validate credentials"
             /\ auth.resp.body = None
             /\ auth.current_user = None)
    /\ [][(auth' # auth) => UNCHANGED <<stores, users, user_id_seq>>]_vars

\* C21 witness: a request without a bearer token has been answered 401 with
\* the detail of oauth2_scheme, before a session was created
C21_Witness ==
    /\ auth.pc = "done"
    /\ auth.case = "no_token"
    /\ auth.resp.status = 401
    /\ auth.resp.detail = "Not authenticated"
    /\ auth.session = "none"

\* C29: every request that obtains a database session through get_db releases
\* it exactly once on every exit path: after a successful response, after a
\* handled domain error, and after an unhandled exception, in which case the
\* session is first rolled back and the error re-raised as a
\* database-operation error. No session remains open after its request has
\* ended.
C29_SessionReleasedOnce ==
    /\ auth.closes <= 1
    /\ auth.session = "open" => auth.pc \in {"current_user", "route", "exit", "exc"}
    /\ auth.pc \in {"current_user", "route", "exit", "exc"} =>
          auth.session = "open" /\ auth.closes = 0
    /\ auth.pc = "done" =>
          IF auth.case = "no_token"
          THEN auth.session = "none" /\ auth.closes = 0
          ELSE auth.session = "closed" /\ auth.closes = 1
    /\ (auth.pc = "done" /\ auth.case = "unhandled") =>
          /\ auth.thrown /\ auth.rolled_back
          /\ auth.resp = DatabaseOperationException("Database error")
    /\ auth.thrown =>
          /\ auth.rolled_back
          /\ auth.resp.exc = "DatabaseOperationException"
          /\ auth.resp.status = 500
    /\ (auth.pc = "done" /\ auth.resp.status = 200) =>
          ~auth.rolled_back /\ auth.case = "ok"
    /\ auth.pc = "idle" => auth.session = "none"

\* C29 witness: a documents route raised an exception that is no
\* HTTPException; the session was rolled back and closed once and the request
\* ended with the database-operation error
C29_Witness ==
    /\ auth.pc = "done"
    /\ auth.case = "unhandled"
    /\ auth.session = "closed" /\ auth.closes = 1
    /\ auth.rolled_back
    /\ auth.resp.exc = "DatabaseOperationException"

(***************************************************************************)
(* Two requests served at the same time, each in its own session           *)
(***************************************************************************)
\* most uuid4() values drawn in one run of SpecRace
MaxRaceUuids == 4

\* the requests served at the same time
RaceSlots == {1, 2}

\* the content the PUT requests of SpecRace carry
RaceNewContents == {MkText(3, 1)}

\* the session of slot p has sent, and not yet committed or rolled back, the
\* UPDATE of document d and the DELETEs of its chunk rows (update_document
\* line 173): the database holds the row locks of that transaction
HoldsRowLock(p, d) ==
    /\ req[p].op = "update"
    /\ req[p].document_id = d
    /\ req[p].update_content
    /\ req[p].pc \in {"chunk", "embed", "commit"}

\* another session holds the row locks of document d
LockedByOther(r, d) == \E p \in RaceSlots \ {r} : HoldsRowLock(p, d)

\* a chunk row the session loaded is no longer in the table
StaleLoad(f) == \E k \in 1..Len(f.loaded) : f.loaded[k] \notin document_chunks

\* the rows the commit of the session inserts collide with a committed row on
\* the unique constraint (document_id, chunk_order) (models.py lines 85-87)
UniqueViolation(f) ==
    \E k \in 1..Len(f.added) :
        \E c \in document_chunks :
            /\ c.id \notin f.deleted
            /\ c.document_id = f.added[k].document_id
            /\ c.chunk_order = f.added[k].chunk_order

RaceCreateUpload(r) ==
    CreateUploadOf(r, LedgerTitles, LedgerContents, MaxDocs, MaxRaceUuids)

\* a PUT with select ... for update: it waits while another session is
\* changing the document (mutant of RaceUpdateLoad)
RaceUpdateLoadForUpdate(r) ==
    /\ \A p \in RaceSlots \ {r} :
          ~(req[p].op = "update" /\ req[p].pc # "done")
    /\ UpdateLoadOf(r, DocIds, {}, RaceNewContents, MaxRaceUuids)

\* the select and the 'content differs' check of update_document (lines
\* 145-164): a plain select, no lock, no version column
RaceUpdateLoad(r) == UpdateLoadOf(r, DocIds, {}, RaceNewContents, MaxRaceUuids)

\* db.flush() (line 173): the statements wait for the row locks of another
\* session; the DELETE of rows that session has removed matches no row, which
\* the ORM may only warn about
RaceUpdateFlush(r) ==
    /\ ~LockedByOther(r, req[r].document_id)
    /\ UpdateFlush(r)

\* db.flush() (line 173) raises because the DELETE of rows another session has
\* removed matches no row: except branch (lines 196-201)
RaceUpdateFlushStale(r) ==
    LET f == req[r]
    IN /\ f.op = "update" /\ f.pc = "flush"
       /\ ~LockedByOther(r, f.document_id)
       /\ StaleLoad(f)
       /\ req' = [req EXCEPT ![r] =
                    Raise(f, f.pc, DocumentProcessingException(
                                       "Failed to re-process document content"))]
       /\ UNCHANGED <<ck, accounts, stores, faults>>

\* db.commit() (line 203): the UPDATE sets the columns the request assigned
\* (content and processed_at when the content changed), the DELETEs and
\* INSERTs of the session are applied
RaceUpdateCommit(r) ==
    LET f == req[r]
        d == f.document_id
        row == IF f.update_content
               THEN [documents[d] EXCEPT !.content = Get(f.db_document).content,
                                         !.processed_at = Now]
               ELSE documents[d]
    IN /\ f.op = "update" /\ f.pc = "commit"
       /\ ~LockedByOther(r, d)
       /\ ~UniqueViolation(f)
       /\ documents' = [documents EXCEPT ![d] = row]
       /\ document_chunks' = CommittedChunks(f)
       /\ chunk_id_seq' = chunk_id_seq + Len(f.added)
       /\ req' = [req EXCEPT ![r] =
                    [f EXCEPT !.db_document = Some([id |-> d] @@ row),
                              !.added = <<>>, !.deleted = {}, !.pc = "refresh"]]
       /\ UNCHANGED <<ck, accounts, doc_id_seq, embeddings, ext_documents,
                      uuid_seq, faults>>

\* db.commit() (line 203) raises IntegrityError on the unique constraint
\* (document_id, chunk_order): the exception leaves the route and get_db rolls
\* back and raises (database.py lines 36-38)
RaceUpdateCommitConflict(r) ==
    LET f == req[r]
    IN /\ f.op = "update" /\ f.pc = "commit"
       /\ ~LockedByOther(r, f.document_id)
       /\ UniqueViolation(f)
       /\ req' = [req EXCEPT ![r] =
                    Raise(f, f.pc, DatabaseOperationException("Database error"))]
       /\ UNCHANGED <<ck, accounts, stores, faults>>

InitRace ==
    /\ ck = CkIdle
    /\ documents = <<>>
    /\ document_chunks = {}
    /\ doc_id_seq = 0
    /\ chunk_id_seq = 0
    /\ embeddings = <<>>
    /\ ext_documents = <<>>
    /\ uuid_seq = 0
    /\ faults = 0
    /\ req = [r \in RaceSlots |-> IdleReq]
    /\ InitAccounts

NextRace ==
    \E r \in RaceSlots :
        \/ Return(r)
        \/ RaceCreateUpload(r) \/ CreateFlush(r) \/ CreateChunk(r) \/ CreateEmbed(r)
        \/ CreateCommit(r) \/ CreateRefresh(r)
        \/ RaceUpdateLoad(r) \/ UpdateDeleteOld(r) \/ RaceUpdateFlush(r)
        \/ RaceUpdateFlushStale(r) \/ UpdateChunk(r) \/ UpdateEmbed(r)
        \/ RaceUpdateCommit(r) \/ RaceUpdateCommitConflict(r) \/ UpdateRefresh(r)
        \/ ChunksVerify(r) \/ ChunksSelect(r)

SpecRace == InitRace /\ [][NextRace]_vars

\* the request of slot p is in progress and has not committed
Uncommitted(p) ==
    /\ req[p].op \in {"create", "update"}
    /\ req[p].pc \notin {"refresh", "done"}

\* a request is being served in slot q
InFlight(q) == req[q].op # "idle" /\ req[q].pc # "done"

\* the embedding records the session of slot p has removed from the store
\* although the chunk rows that name them are still committed
RemovedEarly(p) ==
    {c \in document_chunks : c.id \in req[p].deleted
                             /\ get_embedding_from(embeddings, c.embedding_id) = None}

\* the embedding records the session of slot p has added for rows that are
\* still pending in the session
AddedEarly(p) ==
    {k \in 1..Len(req[p].added) :
        get_embedding_from(embeddings, req[p].added[k].embedding_id) # None}

\* the external entry the create request of slot p has uploaded
UploadedEarly(p) ==
    IF req[p].op = "create" /\ req[p].db_document # None
       /\ Get(req[p].db_document).mock_system_id \in DOMAIN ext_documents
    THEN {Get(req[p].db_document).mock_system_id}
    ELSE {}

\* C27: while a create or update request has not committed, a request served
\* at the same time finds none of its effects: the tables are as they were
\* when it began, no embedding record of a committed chunk row is gone, and no
\* embedding record or external entry it has added is in the stores.
C27_NoUncommittedEffectVisible ==
    \A p \in RaceSlots : \A q \in RaceSlots \ {p} :
        (Uncommitted(p) /\ InFlight(q)) =>
            /\ RemovedEarly(p) = {}
            /\ AddedEarly(p) = {}
            /\ UploadedEarly(p) = {}

\* a PUT has removed the embedding record of a committed chunk row and has not
\* committed, while a DELETE-or-PUT-or-GET of the same document is being served
C27_Witness ==
    /\ Uncommitted(1) /\ req[1].op = "update"
    /\ RemovedEarly(1) # {}
    /\ InFlight(2) /\ req[2].op = "get_chunks"
    /\ req[2].document_id = req[1].document_id

\* the 'content differs' check of a PUT for document d carrying content c, as
\* slot q makes it now
ContentCheckPasses(q, d, c) ==
    /\ d \in DOMAIN documents
    /\ ApplyUpdate(DocObject(d), None, Some(c)).update_content

\* slot p is reprocessing document d and has not committed
Reprocessing(p, d) ==
    /\ req[p].op = "update" /\ req[p].document_id = d
    /\ req[p].update_content
    /\ req[p].pc \in {"del_old", "flush", "chunk", "embed", "commit"}

\* no session has committed a change of document d since slot p began
NoCommitSince(p, d) ==
    /\ d \in DOMAIN documents
    /\ d \in DOMAIN req[p].pre.documents
    /\ documents[d] = req[p].pre.documents[d]

\* C28: while one content-changing PUT is reprocessing a document and has not
\* committed, and nothing was committed since it began, the 'content differs' check of a second PUT for the same document
\* passes, with the very same new content too, and the second PUT is admitted:
\* no lock or version check stands in its way; a second PUT that has been
\* admitted runs its own deletion loop.
C28_SecondPutAdmitted ==
    \A p \in RaceSlots : \A q \in RaceSlots \ {p} : \A d \in DocIds :
        /\ (Reprocessing(p, d) /\ NoCommitSince(p, d)
            /\ req[q].op = "idle" /\ uuid_seq < MaxRaceUuids) =>
              /\ ContentCheckPasses(q, d, Get(req[p].db_document).content)
              /\ ENABLED (RaceUpdateLoad(q) /\ req'[q].document_id = d
                          /\ req'[q].update_content)
        /\ (Reprocessing(p, d) /\ Reprocessing(q, d)) =>
              (req[q].pc # "del_old" =>
                  \A k \in 1..Len(req[q].loaded) :
                      req[q].loaded[k].embedding_id \notin DOMAIN embeddings)

\* both PUTs passed the check before either committed; both have run the
\* deletion loop and both have created new embeddings
C28_Witness ==
    /\ Reprocessing(1, 1) /\ Reprocessing(2, 1)
    /\ req[1].pc = "commit" /\ req[2].pc = "flush"
    /\ Len(req[1].added) > 0
    /\ NoCommitSince(1, 1) /\ NoCommitSince(2, 1)
    /\ req[1].loaded = req[2].loaded
    /\ Len(req[2].loaded) > 0

(***************************************************************************)
(* The mock services after a run of requests                               *)
(***************************************************************************)
\* the committed chunk rows that name embedding id `id`
ReferencedBy(id) == {c \in document_chunks : c.embedding_id = id}

\* C31: whenever no request is in flight, every id live in the embedding
\* store is referenced by exactly one committed chunk row: no request, failed
\* or successful, leaves behind an embedding that no chunk row references.
C31_NoOrphanEmbedding ==
    (F.op = "idle") =>
        \A id \in DOMAIN embeddings : Cardinality(ReferencedBy(id)) = 1

\* C31 witness: a POST has failed at its commit after it added an embedding
\* to the store; its chunk rows are rolled back, the embedding stays
C31_Witness ==
    /\ F.op = "create" /\ F.pc = "done"
    /\ F.failed_at = "commit"
    /\ \E id \in (DOMAIN embeddings) \ (DOMAIN F.pre.embeddings) :
          ReferencedBy(id) = {}

\* C32: for every committed document the content the external document store
\* returns under its mock_system_id equals the document's current content,
\* after any run of successful create and update requests (no call has
\* raised, no delete request is half way).
C32_ExternalMirrorsContent ==
    (faults = 0 /\ F.op # "delete") =>
        \A d \in DOMAIN documents :
            get_document_content(documents[d].mock_system_id)
                = Some(documents[d].content)

\* C32 witness: a content-changing PUT has succeeded
C32_Witness ==
    /\ F.op = "update" /\ F.pc = "done"
    /\ F.resp.status = 200
    /\ F.update_content
    /\ faults = 0

\* C33: whenever create_document answers with DocumentProcessingException, no
\* Document row and no chunk row of the request is committed, whichever
\* statement of the try block raised, those after the commit included.
C33_CreateErrorCommitsNothing ==
    (/\ F.op = "create" /\ F.pc = "done"
     /\ F.resp.exc = "DocumentProcessingException") =>
        /\ documents = F.pre.documents
        /\ document_chunks = F.pre.document_chunks

\* C33 witness: db.refresh raised after db.commit
C33_Witness ==
    /\ F.op = "create" /\ F.pc = "done"
    /\ F.failed_at = "refresh"
    /\ F.resp.exc = "DocumentProcessingException"

(***************************************************************************)
(* Two PUT requests on one document                                        *)
(***************************************************************************)
\* the contents the PUT requests of SpecPuts carry: a text of one chunk and
\* the empty string (DocumentUpdate.content has no minimum length)
PutContents == {MkText(3, 1), <<>>}

PutLoad(r) == UpdateLoadOf(r, DocIds, {}, PutContents, MaxRaceUuids)

NextPuts ==
    \E r \in RaceSlots :
        \/ Return(r)
        \/ RaceCreateUpload(r) \/ CreateFlush(r) \/ CreateChunk(r) \/ CreateEmbed(r)
        \/ CreateCommit(r) \/ CreateRefresh(r)
        \/ PutLoad(r) \/ UpdateDeleteOld(r) \/ RaceUpdateFlush(r)
        \/ RaceUpdateFlushStale(r) \/ UpdateChunk(r) \/ UpdateEmbed(r)
        \/ RaceUpdateCommit(r) \/ RaceUpdateCommitConflict(r) \/ UpdateRefresh(r)

SpecPuts == InitRace /\ [][NextPuts]_vars

\* both slots have finished a content-changing PUT on document d
BothPutsDone(d) ==
    \A r \in RaceSlots :
        /\ req[r].op = "update" /\ req[r].pc = "done"
        /\ req[r].document_id = d
        /\ req[r].update_content

\* C34: once two content-changing PUT requests on the same document have both
\* finished, however their steps were interleaved, the committed chunk rows of
\* the document are exactly the Chunker output of the committed content, with
\* orders 0..N-1 and no row of the other request, and every embedding id they
\* name is live in the embedding store.
C34_PutsLeaveChunksOfContent ==
    \A d \in DOMAIN documents :
        BothPutsDone(d) =>
            /\ RowsMatch(d, Chunker(documents[d].content))
            /\ \A c \in ChunksOf(d) : get_embedding(c.embedding_id) # None

\* C34 witness: both PUTs read the same old chunk rows, so neither had
\* committed when the other made its check, and both were answered 200
C34_Witness ==
    /\ BothPutsDone(1)
    /\ req[1].loaded = req[2].loaded /\ Len(req[1].loaded) > 0
    /\ req[1].resp.status = 200 /\ req[2].resp.status = 200

(***************************************************************************)
(* What the committed tables show of a document                            *)
(***************************************************************************)
\* the committed chunk rows of document d carry the texts of `chunks`, one row
\* per chunk, in order
RowsComplete(d, chunks) ==
    LET rows == OrderByChunkOrder(ChunksOf(d))
    IN /\ Len(rows) = Len(chunks)
       /\ \A k \in 1..Len(rows) : rows[k].chunk_text = chunks[k]

\* C36: every committed document has a non-null processed_at and all the
\* chunk rows of its content, in every state from its first commit on: the
\* committed tables, which are what any other request reads, never show a
\* document created but not processed or with part of its chunk rows, and
\* processed_at never returns to null.
C36_ProcessedFromFirstCommit ==
    \A d \in DOMAIN documents :
        /\ documents[d].processed_at # NULL
        /\ RowsComplete(d, Chunker(documents[d].content))

\* C36 witness: a POST of a two-chunk content has just committed
C36_Witness ==
    /\ F.op = "create" /\ F.pc = "refresh"
    /\ Len(F.chunks) = 2
    /\ Get(F.db_document).id \in DOMAIN documents
    /\ Get(F.db_document).id \notin DOMAIN F.pre.documents

(***************************************************************************)
(* The documents a request does not name                                   *)
(***************************************************************************)
\* the document routes with two documents, the read routes included
NextFrame ==
    \/ NextLedger
    \/ \E r \in Slots :
          \/ GetDocument(r) \/ ListDocuments(r)
          \/ ChunksVerify(r) \/ ChunksSelect(r)

SpecFrame == Init /\ [][NextFrame]_vars

\* the documents that existed when the request arrived and that it does not
\* name: all of them for a POST, all but document_id for the rest
OtherDocuments ==
    {b \in DOMAIN F.pre.documents : F.op = "create" \/ b # F.document_id}

\* the external entry of id `mid` in store `store`, or None
ExtEntry(store, mid) == IF mid \in DOMAIN store THEN Some(store[mid]) ELSE None

\* document b is as it was when the request arrived: its row, its chunk rows,
\* the embeddings its chunks reference and its external entry
Untouched(b) ==
    /\ b \in DOMAIN documents
    /\ documents[b] = F.pre.documents[b]
    /\ ChunksOf(b) = PriorChunks(b)
    /\ \A c \in PriorChunks(b) :
          get_embedding_from(embeddings, c.embedding_id)
              = get_embedding_from(F.pre.embeddings, c.embedding_id)
    /\ ExtEntry(ext_documents, F.pre.documents[b].mock_system_id)
          = ExtEntry(F.pre.ext_documents, F.pre.documents[b].mock_system_id)

\* C37: at every point of a create, update or delete request on document A,
\* and after it has succeeded or failed, every other document B is unchanged:
\* its row, its chunk rows, the embeddings its chunks reference and its
\* external entry; list, get and get-chunks leave the tables and both mock
\* stores exactly as they were.
C37_OtherDocumentsUntouched ==
    (F.op # "idle") =>
        /\ \A b \in OtherDocuments : Untouched(b)
        /\ (F.op \in {"list", "get", "get_chunks"} =>
               /\ documents = F.pre.documents
               /\ document_chunks = F.pre.document_chunks
               /\ embeddings = F.pre.embeddings
               /\ ext_documents = F.pre.ext_documents
               /\ uuid_seq = F.pre.uuid_seq)

\* C37 witness: a content-changing PUT on one document has failed after its
\* deletion loop while another document with chunk rows exists
C37_Witness ==
    /\ F.op = "update" /\ F.pc = "done"
    /\ F.failed_at = "embed"
    /\ \E b \in OtherDocuments : PriorChunks(b) # {}

(***************************************************************************)
(* delete_document when the mock stores have lost the entries              *)
(***************************************************************************)
\* the DELETE found its document and no call of it raised
DeleteRanThrough ==
    /\ F.op = "delete" /\ F.pc = "done"
    /\ F.db_document # None
    /\ F.failed_at = ""

\* the loaded chunks whose embedding the store did not hold when the request
\* arrived
DeadEmbeddings ==
    {k \in 1..Len(F.loaded) :
        F.loaded[k].embedding_id \notin DOMAIN F.pre.embeddings}

\* C38: delete_document completes with 204 and removes the document row and
\* its chunk rows also when the external store has no entry under the
\* document's mock_system_id or an embedding id of a chunk is not live: the
\* two mock delete calls never end the request and never touch the tables,
\* whatever they return.
C38_DeleteIgnoresMissing ==
    /\ [](DeleteRanThrough =>
             /\ F.resp = Response(204, "", "", None)
             /\ F.document_id \notin DOMAIN documents
             /\ ChunksOf(F.document_id) = {})
    /\ [][(DeleteExternal(1) \/ DeleteEmbedding(1)) =>
             /\ req'[1].pc \in {"del_emb", "commit"}
             /\ req'[1].failed_at = ""
             /\ documents' = documents
             /\ document_chunks' = document_chunks]_vars

\* C38 witness: a DELETE was answered 204 although neither the external entry
\* nor the embedding of its chunk was in the stores when it arrived
C38_Witness ==
    /\ DeleteRanThrough
    /\ F.resp.status = 204
    /\ Get(F.db_document).mock_system_id \notin DOMAIN F.pre.ext_documents
    /\ DeadEmbeddings # {}

(***************************************************************************)
(* Two POST /auth/register requests at the same time                       *)
(***************************************************************************)
\* most values drawn from the users.id sequence in one run of SpecRegister
MaxRaceUserIds == 3

\* the frame of register_user in a slot
IdleRegister ==
    [op |-> "idle", pc |-> "idle",
     email |-> "",              \* user_in.email
     password |-> "",           \* user_in.password
     id |-> NULL,               \* new_user.id
     case |-> "",               \* which branch the handler took
     resp |-> NoResponse,
     pre |-> <<>>]              \* table users when the request arrived

\* the registrations that have passed the existence check and not committed
PendingRegistrations ==
    {s \in RaceSlots : auth[s].op = "register" /\ auth[s].pc = "commit"}

\* the request arrives in slot s and the handler checks whether a user with
\* the email exists (auth.py lines 24-29); the select reads committed rows
RaceRegisterCheck(s) ==
    \E e \in Emails, p \in Passwords :
        LET f == [IdleRegister EXCEPT !.op = "register", !.pc = "commit",
                                      !.email = e, !.password = p, !.pre = users]
        IN /\ auth[s].op = "idle"
           /\ user_id_seq + Cardinality(PendingRegistrations) < MaxRaceUserIds
           /\ auth' = [auth EXCEPT ![s] =
                         IF SelectUserByEmail(e) # None
                         THEN [f EXCEPT !.pc = "done", !.case = "exists",
                                        !.resp = Response(400, "HTTPException",
                                                          "Email already registered",
                                                          None)]
                         ELSE f]
           /\ UNCHANGED <<ck, stores, faults, req, users, user_id_seq>>

\* get_password_hash, User(...), db.add, db.commit (auth.py lines 32-37); an
\* INSERT the unique index on users.email (models.py line 17) rejects leaves
\* the route as an unhandled IntegrityError, which get_db turns into a
\* database-operation error (database.py lines 36-38)
RaceRegisterCommit(s) ==
    LET f == auth[s]
        id == user_id_seq + 1
        new_user == [email |-> f.email,
                     hashed_password |-> get_password_hash(f.password),
                     is_active |-> TRUE]
    IN /\ f.op = "register" /\ f.pc = "commit"
       /\ user_id_seq' = id
       /\ IF EmailTaken(f.email)
          THEN /\ users' = users
               /\ auth' = [auth EXCEPT ![s] =
                             [f EXCEPT !.pc = "done", !.case = "integrity",
                                       !.resp = DatabaseOperationException(
                                                    "Database error")]]
          ELSE /\ users' = users @@ (id :> new_user)
               /\ auth' = [auth EXCEPT ![s] = [f EXCEPT !.pc = "refresh", !.id = id]]
       /\ UNCHANGED <<ck, stores, faults, req>>

\* db.refresh(new_user); return new_user as UserOut (auth.py lines 38-41)
RaceRegisterRefresh(s) ==
    LET f == auth[s]
        new_user == UserObject(f.id)
    IN /\ f.op = "register" /\ f.pc = "refresh"
       /\ auth' = [auth EXCEPT ![s] =
                     [f EXCEPT !.pc = "done", !.case = "created",
                               !.resp = Response(201, "", "",
                                           Some([id |-> new_user.id,
                                                 email |-> new_user.email,
                                                 is_active |-> new_user.is_active]))]]
       /\ UNCHANGED <<ck, stores, faults, req, users, user_id_seq>>

\* the response has been sent
RaceRegisterReturn(s) ==
    /\ auth[s].pc = "done"
    /\ auth' = [auth EXCEPT ![s] = IdleRegister]
    /\ UNCHANGED <<ck, stores, faults, req, users, user_id_seq>>

InitRegister ==
    /\ ck = CkIdle
    /\ InitStores
    /\ users = <<>>
    /\ user_id_seq = 0
    /\ auth = [s \in RaceSlots |-> IdleRegister]

NextRegister ==
    \E s \in RaceSlots :
        \/ RaceRegisterCheck(s) \/ RaceRegisterCommit(s)
        \/ RaceRegisterRefresh(s) \/ RaceRegisterReturn(s)

SpecRegister == InitRegister /\ [][NextRegister]_vars

\* the committed user rows with email e
UsersWithEmail(e) == {id \in DOMAIN users : users[id].email = e}

\* both slots have been answered a registration of the same email, and no
\* user had that email when the first of them arrived
TwoRegistrationsDone ==
    /\ \A s \in RaceSlots : auth[s].op = "register" /\ auth[s].pc = "done"
    /\ auth[1].email = auth[2].email
    /\ \E s \in RaceSlots :
          \A id \in DOMAIN auth[s].pre : auth[s].pre[id].email # auth[s].email

\* C35: for any interleaving of two concurrent POST /auth/register requests
\* with the same email, exactly one user row with that email is committed and
\* the other request is answered with 400 'Email already registered', also
\* when both requests ran the existence check before either committed.
C35_OneRowOther400 ==
    TwoRegistrationsDone =>
        /\ Cardinality(UsersWithEmail(auth[1].email)) = 1
        /\ \E s \in RaceSlots : \E t \in RaceSlots \ {s} :
              /\ auth[s].resp.status = 201
              /\ auth[t].resp.status = 400
              /\ auth[t].resp.detail = "Email already registered"

\* C35 witness: both requests passed the existence check on a table without
\* the email; one was answered 201
C35_Witness ==
    /\ TwoRegistrationsDone
    /\ \A s \in RaceSlots :
          \A id \in DOMAIN auth[s].pre : auth[s].pre[id].email # auth[s].email
    /\ \E s \in RaceSlots : auth[s].resp.status = 201

(***************************************************************************)
(* Documents with empty content                                            *)
(***************************************************************************)
\* the contents the POST requests of SpecEmpty carry: the empty string
\* (DocumentBase.content has no minimum length) and a text of one chunk
EmptyOrNot == {<<>>, MkText(3, 0)}

EmptyCreateUpload(r) ==
    CreateUploadOf(r, LedgerTitles, EmptyOrNot, MaxLedgerDocs, MaxLedgerUuids)

\* the PUT requests of SpecEmpty carry the empty string
EmptyUpdateLoad(r) == UpdateLoadOf(r, LedgerDocIds, {}, {<<>>}, MaxLedgerUuids)

NextEmpty ==
    \E r \in Slots :
        \/ Return(r)
        \/ EmptyCreateUpload(r) \/ CreateFlush(r) \/ CreateChunk(r) \/ CreateEmbed(r)
        \/ CreateCommit(r) \/ CreateRefresh(r) \/ CreateFail(r)
        \/ EmptyUpdateLoad(r) \/ UpdateDeleteOld(r) \/ UpdateFlush(r)
        \/ UpdateChunk(r) \/ UpdateCommit(r) \/ UpdateRefresh(r)
        \/ UpdateFail(r) \/ UpdateUnhandled(r)

SpecEmpty == Init /\ [][NextEmpty]_vars

\* the documents committed with empty content, no chunk row and a processed_at
ProcessedEmpty ==
    {d \in DOMAIN documents : /\ documents[d].content = <<>>
                              /\ ChunksOf(d) = {}
                              /\ documents[d].processed_at # NULL}

\* C39: a POST with empty content succeeds and commits a document with zero
\* chunk rows, no embedding added and a non-null processed_at; a PUT that
\* changes a document's content from non-empty to the empty string deletes
\* all of its chunk rows and their embeddings and inserts none.
C39_EmptyContent ==
    /\ (F.op = "create" /\ F.content = Some(<<>>) /\ F.failed_at = "") =>
          /\ F.pc \in {"flush", "chunk", "commit", "refresh", "done"}
          /\ F.added = <<>>
          /\ embeddings = F.pre.embeddings
          /\ (F.pc \in {"refresh", "done"} =>
                 /\ Created = {Get(F.db_document).id}
                 /\ Created \subseteq ProcessedEmpty
                 /\ document_chunks = F.pre.document_chunks)
          /\ (F.pc = "done" => F.resp.status = 201)
    /\ (/\ F.op = "update" /\ F.pc = "done" /\ F.resp.status = 200
        /\ F.content = Some(<<>>)
        /\ F.pre.documents[F.document_id].content # <<>>) =>
          /\ F.update_content
          /\ F.document_id \in ProcessedEmpty
          /\ \A c \in PriorChunks(F.document_id) :
                /\ c \notin document_chunks
                /\ get_embedding(c.embedding_id) = None
          /\ DOMAIN embeddings \subseteq DOMAIN F.pre.embeddings
          /\ document_chunks \subseteq F.pre.document_chunks

\* C39 witness: a PUT has emptied a document that had a chunk row, while a
\* document created with empty content is committed
C39_Witness ==
    /\ F.op = "update" /\ F.pc = "done" /\ F.resp.status = 200
    /\ F.content = Some(<<>>)
    /\ PriorChunks(F.document_id) # {}
    /\ \E d \in ProcessedEmpty : /\ d # F.document_id
                                 /\ d \in DOMAIN F.pre.documents

====
